---- MODULE Spec2Model ----
(***************************************************************************)
(* Phase 6 orchestration core: PipelineResult / PhaseResult                *)
(* (config_models.py), StateTracker (state_tracker.py), PipelineRunner     *)
(* (pipeline_runner.py) and BatchExecutor (batch_executor.py).             *)
(*                                                                         *)
(* A runner is one record: the PipelineRunner object (config, tracker),    *)
(* the frame of its run() call (result, scenes, loop index, pending        *)
(* exception, program counter) and the wall clock it reads.  Stage         *)
(* collaborators (phase_1 .. phase_5 modules) are black boxes: what they   *)
(* return or raise is an input of the step that calls them.                *)
(*                                                                         *)
(* Floats: an intensity is an integer number of tenths (13 is 1.3), a      *)
(* clock reading an integer number of seconds.                             *)
(*                                                                         *)
(* Phase 7 metrics and traces: compute_jaccard_similarity and              *)
(* compute_determinism_score (evaluation/consistency.py),                  *)
(* MetricsEngine.evaluate_pair (metrics.py), TraceLogger                   *)
(* (trace_logger.py), used from a Python session that imports them.        *)
(***************************************************************************)
EXTENDS Integers, Sequences, FiniteSets, TLC

\* ------------------------------------------------------------------ bounds

MaxScenes == 2      \* scenes a parsed script may hold
MaxGroups == 2      \* groups a LightingInstruction may hold
MaxTick == 1        \* seconds one collaborator call may take
MaxBatch == 3       \* scripts in one batch
MaxWorkers == 2     \* max_workers of a parallel batch
MaxFaults == 1      \* worker threads that fault in one batch
MaxRuns == 2        \* run() calls on one PipelineRunner
MaxIds == 3         \* group ids the compared sets and instructions draw from
MaxOps == 3         \* calls made on one TraceLogger
MaxIdle == 1        \* seconds one run() spends between its stages

\* ------------------------------------------------------ Python's None values

None == "None"          \* Optional[str] / Optional[dict] that is None
NoTime == -1            \* Optional[float] / Optional[datetime] that is None

\* ------------------------------------------------------------- PhaseStatus

PENDING == "pending"
RUNNING == "running"
SUCCESS == "success"
FAILED == "failed"
SKIPPED == "skipped"

PhaseStatus == {PENDING, RUNNING, SUCCESS, FAILED, SKIPPED}

\* -------------------------------------------------- messages and outputs

\* str(e) / a reason string: the text and the value formatted into it
Msg(text, value) == [text |-> text, value |-> value]
NoMsg == Msg(None, 0)

\* the one-entry output dict of a PhaseResult ({"scene_count": 2},
\* {"emotion": "joy"}): its key, and its value as a number or as a string
Out(key, value, text) == [key |-> key, value |-> value, text |-> text]
NoOut == Out(None, 0, None)

\* ------------------------------------------------------------ PhaseResult

PhaseResult(phase_name, status, output, error_message, duration_seconds) ==
    [phase_name |-> phase_name, status |-> status, output |-> output,
     error_message |-> error_message, duration_seconds |-> duration_seconds]

is_success(p) == p.status = SUCCESS

is_failed(p) == p.status = FAILED

\* ---------------------------------------------------------- PipelineResult

PipelineResult(script_path, final_status) ==
    [script_path |-> script_path, phase_results |-> <<>>,
     total_duration_seconds |-> 0, final_status |-> final_status]

\* an add_phase_result that takes every result that is not a Success for a
\* failure
Mutant_add_phase_result(res, p) ==
    [res EXCEPT !.phase_results = Append(@, p),
                !.total_duration_seconds = @ + p.duration_seconds,
                !.final_status = IF ~is_success(p) THEN FAILED ELSE @]

add_phase_result(res, p) ==
    [res EXCEPT !.phase_results = Append(@, p),
                !.total_duration_seconds = @ + p.duration_seconds,
                !.final_status = IF is_failed(p) THEN FAILED ELSE @]

\* a mark_complete that does not look at the status it overwrites
Mutant_mark_complete(res) == [res EXCEPT !.final_status = SUCCESS]

mark_complete(res) ==
    [res EXCEPT !.final_status = IF @ # FAILED THEN SUCCESS ELSE @]

\* ---------------------------------------------------------- ExecutionState

ExecutionState(current_script, total_scenes, status, started_at) ==
    [current_phase |-> None, current_script |-> current_script,
     current_scene_id |-> None, current_scene_index |-> 0,
     total_scenes |-> total_scenes, status |-> status,
     started_at |-> started_at, completed_at |-> NoTime,
     phase_results |-> <<>>, output_paths |-> {}, last_error |-> NoMsg]

\* ------------------------------------------------------------ StateTracker
\* The tracker of runner r: r.heap holds every ExecutionState object the
\* tracker has created, oldest first; self._state is the newest one.
\* r.phase_start_time is self._phase_start_time, r.now the wall clock.

get_state(r) == r.heap[Len(r.heap)]

start_pipeline(r, script_path, total_scenes) ==
    [r EXCEPT !.heap = Append(@, ExecutionState(script_path, total_scenes,
                                                RUNNING, r.now))]

start_phase(r, phase_name) ==
    [r EXCEPT !.heap[Len(r.heap)].current_phase = phase_name,
              !.heap[Len(r.heap)].status = RUNNING,
              !.phase_start_time = r.now,
              !.started = Append(@, phase_name),
              !.ops = Append(@, [op |-> "start_phase", phase_name |-> phase_name])]

\* the PhaseResult complete_phase builds and returns
complete_phase_result(r, phase_name, status, output, error_message) ==
    PhaseResult(phase_name, status, output, error_message,
                IF r.phase_start_time # NoTime /\ r.phase_start_time # 0
                THEN r.now - r.phase_start_time ELSE 0)

\* a complete_phase that stores the message of every result as last_error
Mutant_complete_phase(r, phase_name, status, output, error_message) ==
    LET p == complete_phase_result(r, phase_name, status, output, error_message)
        s == Len(r.heap)
    IN [r EXCEPT !.heap[s].phase_results = Append(@, p),
                 !.heap[s].status = IF status = FAILED THEN FAILED ELSE @,
                 !.heap[s].last_error = error_message,
                 !.phase_start_time = NoTime,
                 !.ops = Append(@, [op |-> "complete_phase",
                                    phase_name |-> phase_name])]

\* what complete_phase does to the tracker
complete_phase(r, phase_name, status, output, error_message) ==
    LET p == complete_phase_result(r, phase_name, status, output, error_message)
        s == Len(r.heap)
    IN [r EXCEPT !.heap[s].phase_results = Append(@, p),
                 !.heap[s].status = IF status = FAILED THEN FAILED ELSE @,
                 !.heap[s].last_error =
                     IF status = FAILED THEN error_message ELSE @,
                 !.phase_start_time = NoTime,
                 !.ops = Append(@, [op |-> "complete_phase",
                                    phase_name |-> phase_name])]

\* a skip that drops its reason
Mutant_skip_phase_result(phase_name, reason) ==
    PhaseResult(phase_name, SKIPPED, NoOut, NoMsg, 0)

\* the PhaseResult skip_phase builds and returns
skip_phase_result(phase_name, reason) ==
    PhaseResult(phase_name, SKIPPED, NoOut, reason, 0)

\* what skip_phase does to the tracker
skip_phase(r, phase_name, reason) ==
    [r EXCEPT !.heap[Len(r.heap)].phase_results =
                  Append(@, skip_phase_result(phase_name, reason)),
              !.ops = Append(@, [op |-> "skip_phase", phase_name |-> phase_name])]

set_current_scene(r, scene_id, scene_index) ==
    [r EXCEPT !.heap[Len(r.heap)].current_scene_id = scene_id,
              !.heap[Len(r.heap)].current_scene_index = scene_index]

complete_pipeline(r, status) ==
    [r EXCEPT !.heap[Len(r.heap)].status = status,
              !.heap[Len(r.heap)].completed_at = r.now,
              !.heap[Len(r.heap)].current_phase = None]

\* len([x for x in state.phase_results if x.status == status])
phases_with(state, status) ==
    Cardinality({i \in DOMAIN state.phase_results :
                    state.phase_results[i].status = status})

get_summary(r) ==
    LET state == r.heap[Len(r.heap)]
    IN [script |-> state.current_script,
        status |-> state.status,
        current_phase |-> state.current_phase,
        scenes_processed |-> state.current_scene_index,
        total_scenes |-> state.total_scenes,
        phases_completed |-> phases_with(state, SUCCESS),
        phases_failed |-> phases_with(state, FAILED),
        phases_skipped |-> phases_with(state, SKIPPED),
        last_error |-> state.last_error]

\* ---------------------------------------------------------- PipelineConfig

PipelineConfig(enable_phase_5, enable_phase_7, enable_phase_8) ==
    [enable_phase_5 |-> enable_phase_5, enable_phase_7 |-> enable_phase_7,
     enable_phase_8 |-> enable_phase_8]

Configs == {PipelineConfig(e5, e7, e8) : e5 \in BOOLEAN, e7 \in BOOLEAN,
                                         e8 \in BOOLEAN}

\* ------------------------------------------- what the collaborators return
\* A collaborator call returns a value or raises an Exception; Raise(text) is
\* the exception, str(e) = text.

Raise(text) == [raised |-> TRUE, error |-> Msg(text, 0)]
Return(value) == [raised |-> FALSE, value |-> value]

\* phase_1: a list of scenes.  A scene is a dict, or (a parser that breaks
\* its interface) not a dict at all; the parser gives every dict scene of a
\* script a "scene_id" key or gives none of them one.
Scene(kind, scene_id) ==
    [kind |-> kind, scene_id |-> scene_id,
     emotion |-> [primary_emotion |-> None, confidence |-> 0]]

SeqsUpTo(S, n) == UNION {[1..k -> S] : k \in 0..n}

ParsedSceneId(k) == <<"act_1", "act_2", "act_3", "act_4", "act_5">>[k]

ParsedScenes(kinds, with_ids) ==
    [k \in 1..Len(kinds) |->
        Scene(kinds[k],
              IF with_ids /\ kinds[k] = "dict" THEN ParsedSceneId(k) ELSE None)]

ParseOutcomes ==
    {Raise("cannot read script")}
        \cup {Return(ParsedScenes(kinds, with_ids)) :
                kinds \in SeqsUpTo({"dict", "str"}, MaxScenes),
                with_ids \in BOOLEAN}

\* phase_2.analyze_emotion: an emotion analysis
EnrichOutcomes ==
    {Raise("emotion model failed"),
     Return([primary_emotion |-> "joy", confidence |-> 8])}

\* phase_3 retriever.build_context_for_llm: a context, here its words
RetrieveOutcomes ==
    {Raise("retriever failed"), Return(<<"warm", "amber", "wash">>)}

\* phase_4 LightingDecisionEngine.generate_instruction: a LightingInstruction
Group(group_id, intensity) ==
    [group_id |-> group_id, parameters |-> [intensity |-> intensity]]

GroupIds == {"", "front_wash"}
Intensities == {-1, 0, 10, 13}
Groups == {Group(g, i) : g \in GroupIds, i \in Intensities}

LightingInstruction(groups) == [groups |-> groups]

Instructions == {LightingInstruction(gs) : gs \in SeqsUpTo(Groups, MaxGroups)}

\* every instruction of up to MaxGroups groups (specification GateSpec)
DecideOutcomes ==
    {Raise("engine failed")} \cup {Return(ins) : ins \in Instructions}

\* the instructions the engine returns in specification Spec: no group, one
\* group in range, one group out of range, one group without identifier
FlowInstructions ==
    {LightingInstruction(<<>>),
     LightingInstruction(<<Group("front_wash", 10)>>),
     LightingInstruction(<<Group("front_wash", 13)>>),
     LightingInstruction(<<Group("", 0)>>)}

FlowDecideOutcomes ==
    {Raise("engine failed")} \cup {Return(ins) : ins \in FlowInstructions}

\* "from phase_5 import playback_engine": imports, is not installed
\* (ImportError), or fails while importing
SimulateOutcomes == {"imported", "ImportError", "Exception"}

\* ---------------------------------------------------------- PipelineRunner
\* Fields of a runner r beyond its tracker:
\*   config                 self.config
\*   pc                     where its run() call stands ("idle": not called)
\*   result, scenes, idx, lighting_instructions, pipeline_start
\*                          the locals of run()
\*   exc                    the exception in flight, None when there is none
\*   calls                  history: the collaborator calls run() made so
\*                          far, each with the scene index and what the call
\*                          returned
\*   started                history: the start_phase calls run() made so far
\*   ops                    history: the start_phase, complete_phase and
\*                          skip_phase calls run() made so far, in order
\*   caught                 history: the exception class an except clause of
\*                          run() caught, None when none did

NoResult == PipelineResult(None, PENDING)

PipelineRunner(config) ==
    [config |-> config,
     heap |-> <<ExecutionState(None, 0, PENDING, NoTime)>>,
     phase_start_time |-> NoTime, now |-> 1,
     pc |-> "idle", result |-> NoResult, scenes |-> <<>>, idx |-> 0,
     lighting_instructions |-> <<>>, pipeline_start |-> NoTime,
     exc |-> None, calls |-> <<>>, started |-> <<>>, ops |-> <<>>,
     caught |-> None]

\* a collaborator of `stage` is called, takes dt seconds and ends with out
invoke(r, stage, out, dt) ==
    [r EXCEPT !.now = @ + dt,
              !.calls = Append(@, [stage |-> stage, idx |-> r.idx, out |-> out])]

\* phase_result = self.state.complete_phase(...); result.add_phase_result(phase_result)
record_phase(r, phase_name, status, output, error_message) ==
    [complete_phase(r, phase_name, status, output, error_message)
        EXCEPT !.result = add_phase_result(@,
            complete_phase_result(r, phase_name, status, output, error_message))]

\* result.add_phase_result(self.state.skip_phase(...))
record_skip(r, phase_name, reason) ==
    [skip_phase(r, phase_name, reason)
        EXCEPT !.result = add_phase_result(@, skip_phase_result(phase_name, reason))]

\* raise exc: control leaves the try block of run()
raise(r, exc) == [r EXCEPT !.exc = exc, !.pc = "except"]

\* run(), up to the try block: a new frame, a new PipelineResult
run_enter(r, script_path) ==
    [r EXCEPT !.result = PipelineResult(script_path, PENDING),
              !.pipeline_start = r.now,
              !.scenes = <<>>, !.idx = 0, !.lighting_instructions = <<>>,
              !.exc = None, !.calls = <<>>, !.started = <<>>, !.ops = <<>>,
              !.caught = None,
              !.pc = "phase_1"]

\* a Parse failure that is recorded but does not abort the run
Mutant_run_phase_1(r, out, dt) ==
    LET a == invoke(start_phase(r, "phase_1"), "phase_1", out, dt)
    IN IF ~out.raised
       THEN [record_phase(a, "phase_1", SUCCESS,
                          Out("scene_count", Len(out.value), None), NoMsg)
                EXCEPT !.scenes = out.value, !.pc = "start_pipeline"]
       ELSE [record_phase(a, "phase_1", FAILED, NoOut, out.error)
                EXCEPT !.scenes = <<>>, !.pc = "start_pipeline"]

_run_phase_1(r, out, dt) ==
    LET a == invoke(start_phase(r, "phase_1"), "phase_1", out, dt)
    IN IF ~out.raised
       THEN [record_phase(a, "phase_1", SUCCESS,
                          Out("scene_count", Len(out.value), None), NoMsg)
                EXCEPT !.scenes = out.value, !.pc = "start_pipeline"]
       ELSE raise(record_phase(a, "phase_1", FAILED, NoOut, out.error),
                  "HardFailureError")

\* self.state.start_pipeline(script_path, len(scenes)); lighting_instructions = []
run_start_pipeline(r) ==
    [start_pipeline(r, r.result.script_path, Len(r.scenes))
        EXCEPT !.lighting_instructions = <<>>, !.idx = 0, !.pc = "scene"]

\* f"scene_{idx:03d}"
DefaultSceneId(idx) ==
    <<"scene_000", "scene_001", "scene_002", "scene_003", "scene_004">>[idx + 1]

\* the head of the scene loop: the next scene's id is read and published,
\* or the loop ends.  scene.get raises AttributeError on a non-dict scene.
run_next_scene(r) ==
    IF r.idx < Len(r.scenes)
    THEN LET scene == r.scenes[r.idx + 1]
         IN IF scene.kind # "dict"
            THEN raise(r, "AttributeError")
            ELSE [set_current_scene(r,
                      IF scene.scene_id # None THEN scene.scene_id
                      ELSE DefaultSceneId(r.idx), r.idx)
                    EXCEPT !.pc = "phase_2"]
    ELSE [r EXCEPT !.pc = "phase_5"]

\* an Enrich failure treated as a hard failure
Mutant_run_phase_2(r, out, dt) ==
    LET a == invoke(start_phase(r, "phase_2"), "phase_2", out, dt)
        k == r.idx + 1
    IN IF ~out.raised
       THEN [record_phase(a, "phase_2", SUCCESS,
                          Out("emotion", 0, out.value.primary_emotion), NoMsg)
                EXCEPT !.scenes[k].emotion = out.value, !.pc = "phase_3"]
       ELSE raise(record_phase(a, "phase_2", FAILED, NoOut, out.error),
                  "HardFailureError")

\* an Enrich failure that is recorded and then tried again
Mutant_retry_phase_2(r, out, dt) ==
    LET a == invoke(start_phase(r, "phase_2"), "phase_2", out, dt)
        k == r.idx + 1
    IN IF ~out.raised
       THEN [record_phase(a, "phase_2", SUCCESS,
                          Out("emotion", 0, out.value.primary_emotion), NoMsg)
                EXCEPT !.scenes[k].emotion = out.value, !.pc = "phase_3"]
       ELSE [record_phase(a, "phase_2", FAILED, NoOut, out.error)
                EXCEPT !.pc = "phase_2"]

_run_phase_2(r, out, dt) ==
    LET a == invoke(start_phase(r, "phase_2"), "phase_2", out, dt)
        k == r.idx + 1
    IN IF ~out.raised
       THEN [record_phase(a, "phase_2", SUCCESS,
                          Out("emotion", 0, out.value.primary_emotion), NoMsg)
                EXCEPT !.scenes[k].emotion = out.value, !.pc = "phase_3"]
       ELSE [record_phase(a, "phase_2", FAILED, NoOut, out.error)
                EXCEPT !.scenes[k].emotion =
                           [primary_emotion |-> "neutral", confidence |-> 0],
                       !.pc = "phase_3"]

\* a Retrieve failure that is recorded but does not abort the run
Mutant_run_phase_3(r, out, dt) ==
    LET a == invoke(start_phase(r, "phase_3"), "phase_3", out, dt)
    IN IF ~out.raised
       THEN [record_phase(a, "phase_3", SUCCESS,
                          Out("context_length", Len(out.value), None), NoMsg)
                EXCEPT !.pc = "phase_4"]
       ELSE [record_phase(a, "phase_3", FAILED, NoOut, out.error)
                EXCEPT !.pc = "phase_4"]

_run_phase_3(r, out, dt) ==
    LET a == invoke(start_phase(r, "phase_3"), "phase_3", out, dt)
    IN IF ~out.raised
       THEN [record_phase(a, "phase_3", SUCCESS,
                          Out("context_length", Len(out.value), None), NoMsg)
                EXCEPT !.pc = "phase_4"]
       ELSE raise(record_phase(a, "phase_3", FAILED, NoOut, out.error),
                  "HardFailureError")

\* a check whose message does not say which intensity it rejected
RECURSIVE Mutant_validate_message(_, _)
Mutant_validate_message(groups, i) ==
    IF i > Len(groups) THEN NoMsg
    ELSE IF groups[i].group_id = ""
         THEN Msg("Missing group_id in LightingInstruction", 0)
    ELSE IF groups[i].parameters.intensity < 0
                \/ groups[i].parameters.intensity > 10
         THEN Msg("Intensity out of range [0, 1]", 0)
    ELSE Mutant_validate_message(groups, i + 1)

\* a check with strict comparisons: the ends of the interval are rejected
RECURSIVE Mutant_validate_strict(_, _)
Mutant_validate_strict(groups, i) ==
    IF i > Len(groups) THEN NoMsg
    ELSE IF groups[i].group_id = ""
         THEN Msg("Missing group_id in LightingInstruction", 0)
    ELSE IF groups[i].parameters.intensity <= 0
                \/ groups[i].parameters.intensity >= 10
         THEN Msg("Intensity {intensity} out of range [0, 1]",
                  groups[i].parameters.intensity)
    ELSE Mutant_validate_strict(groups, i + 1)

\* a check that forgets the lower end of the interval
RECURSIVE Mutant_validate_from(_, _)
Mutant_validate_from(groups, i) ==
    IF i > Len(groups) THEN NoMsg
    ELSE IF groups[i].group_id = ""
         THEN Msg("Missing group_id in LightingInstruction", 0)
    ELSE IF groups[i].parameters.intensity > 10
         THEN Msg("Intensity {intensity} out of range [0, 1]",
                  groups[i].parameters.intensity)
    ELSE Mutant_validate_from(groups, i + 1)

\* The message of the ContractViolationError the check raises at the first
\* offending group from position i on, NoMsg when it raises none.
RECURSIVE validate_from(_, _)
validate_from(groups, i) ==
    IF i > Len(groups) THEN NoMsg
    ELSE IF groups[i].group_id = ""
         THEN Msg("Missing group_id in LightingInstruction", 0)
    ELSE IF groups[i].parameters.intensity < 0
                \/ groups[i].parameters.intensity > 10
         THEN Msg("Intensity {intensity} out of range [0, 1]",
                  groups[i].parameters.intensity)
    ELSE validate_from(groups, i + 1)

_validate_lighting_instruction(instruction) ==
    validate_from(instruction.groups, 1)

\* a contract violation that is recorded but does not abort the run
Mutant_run_phase_4(r, out, dt) ==
    LET a == invoke(start_phase(r, "phase_4"), "phase_4", out, dt)
    IN IF out.raised
       THEN raise(record_phase(a, "phase_4", FAILED, NoOut, out.error),
                  "HardFailureError")
       ELSE IF _validate_lighting_instruction(out.value) # NoMsg
       THEN [record_phase(a, "phase_4", FAILED, NoOut,
                          _validate_lighting_instruction(out.value))
                EXCEPT !.lighting_instructions = Append(@, out.value),
                       !.idx = @ + 1, !.pc = "scene"]
       ELSE [record_phase(a, "phase_4", SUCCESS,
                          Out("groups_count", Len(out.value.groups), None), NoMsg)
                EXCEPT !.lighting_instructions = Append(@, out.value),
                       !.idx = @ + 1, !.pc = "scene"]

_run_phase_4(r, out, dt) ==
    LET a == invoke(start_phase(r, "phase_4"), "phase_4", out, dt)
    IN IF out.raised
       THEN raise(record_phase(a, "phase_4", FAILED, NoOut, out.error),
                  "HardFailureError")
       ELSE IF _validate_lighting_instruction(out.value) # NoMsg
       THEN raise(record_phase(a, "phase_4", FAILED, NoOut,
                               _validate_lighting_instruction(out.value)),
                  "HardFailureError")
       ELSE [record_phase(a, "phase_4", SUCCESS,
                          Out("groups_count", Len(out.value.groups), None), NoMsg)
                EXCEPT !.lighting_instructions = Append(@, out.value),
                       !.idx = @ + 1, !.pc = "scene"]

\* a Simulate stage that is never marked as started
Mutant_unstarted_phase_5(r, out, dt) ==
    LET a == invoke(r, "phase_5", out, dt)
    IN CASE out = "imported" ->
                record_phase(a, "phase_5", SUCCESS, NoOut, NoMsg)
         [] out = "ImportError" ->
                record_phase(a, "phase_5", SKIPPED, NoOut,
                             Msg("Module not available", 0))
         [] OTHER ->
                record_phase(a, "phase_5", FAILED, NoOut,
                             Msg("phase_5 failed to import", 0))

\* a Simulate failure that aborts the run
Mutant_fatal_phase_5(r, out, dt) ==
    LET a == invoke(start_phase(r, "phase_5"), "phase_5", out, dt)
    IN CASE out = "imported" ->
                record_phase(a, "phase_5", SUCCESS, NoOut, NoMsg)
         [] out = "ImportError" ->
                record_phase(a, "phase_5", SKIPPED, NoOut,
                             Msg("Module not available", 0))
         [] OTHER ->
                raise(record_phase(a, "phase_5", FAILED, NoOut,
                                   Msg("phase_5 failed to import", 0)),
                      "HardFailureError")

_run_phase_5(r, out, dt) ==
    LET a == invoke(start_phase(r, "phase_5"), "phase_5", out, dt)
    IN CASE out = "imported" ->
                record_phase(a, "phase_5", SUCCESS, NoOut, NoMsg)
         [] out = "ImportError" ->
                record_phase(a, "phase_5", SKIPPED, NoOut,
                             Msg("Module not available", 0))
         [] OTHER ->
                record_phase(a, "phase_5", FAILED, NoOut,
                             Msg("phase_5 failed to import", 0))

_run_phase_7(r) ==
    record_phase(start_phase(r, "phase_7"), "phase_7", SKIPPED, NoOut,
                 Msg("Phase 7 not yet implemented", 0))

\* Evaluate run before Simulate
Mutant_run_phase_5(r, out, dt) ==
    LET a == IF r.config.enable_phase_7
             THEN _run_phase_7(r)
             ELSE record_skip(r, "phase_7", Msg("Disabled by configuration", 0))
    IN [(IF r.config.enable_phase_5
         THEN _run_phase_5(a, out, dt)
         ELSE record_skip(a, "phase_5", Msg("Disabled by configuration", 0)))
           EXCEPT !.pc = "phase_8"]

\* run(): the three optional stages after the scene loop
run_phase_5(r, out, dt) ==
    [(IF r.config.enable_phase_5
      THEN _run_phase_5(r, out, dt)
      ELSE record_skip(r, "phase_5", Msg("Disabled by configuration", 0)))
        EXCEPT !.pc = "phase_7"]

\* a disabled Evaluate stage that leaves no stage result
Mutant_run_phase_7(r) ==
    [(IF r.config.enable_phase_7 THEN _run_phase_7(r) ELSE r)
        EXCEPT !.pc = "phase_8"]

run_phase_7(r) ==
    [(IF r.config.enable_phase_7
      THEN _run_phase_7(r)
      ELSE record_skip(r, "phase_7", Msg("Disabled by configuration", 0)))
        EXCEPT !.pc = "phase_8"]

run_phase_8(r) ==
    [(IF r.config.enable_phase_8
      THEN record_skip(r, "phase_8", Msg("Not implemented", 0))
      ELSE r)
        EXCEPT !.pc = "complete"]

\* result.mark_complete(); self.state.complete_pipeline(PhaseStatus.SUCCESS)
run_complete(r) ==
    [complete_pipeline(r, SUCCESS)
        EXCEPT !.result = mark_complete(@), !.pc = "finish"]

\* the exception classes that derive from Exception
Exceptions == {"HardFailureError", "AttributeError", "RuntimeError"}

\* an "except Exception" clause that does not complete the tracker's run
Mutant_run_except_open(r) ==
    IF r.exc = "HardFailureError"
    THEN [complete_pipeline(r, FAILED)
            EXCEPT !.result.final_status = FAILED, !.exc = None,
                   !.caught = r.exc, !.pc = "finish"]
    ELSE IF r.exc \in Exceptions
    THEN [r EXCEPT !.result.final_status = FAILED, !.exc = None,
                   !.caught = r.exc, !.pc = "finish"]
    ELSE [r EXCEPT !.pc = "raised"]

\* a run() without the "except Exception" clause
Mutant_run_except(r) ==
    IF r.exc = "HardFailureError"
    THEN [complete_pipeline(r, FAILED)
            EXCEPT !.result.final_status = FAILED, !.exc = None,
                   !.caught = r.exc, !.pc = "finish"]
    ELSE [r EXCEPT !.pc = "raised"]

\* the except clauses of run(): HardFailureError, then Exception; anything
\* else leaves run() uncaught
run_except(r) ==
    IF r.exc = "HardFailureError"
    THEN [complete_pipeline(r, FAILED)
            EXCEPT !.result.final_status = FAILED, !.exc = None,
                   !.caught = r.exc, !.pc = "finish"]
    ELSE IF r.exc \in Exceptions
    THEN [complete_pipeline(r, FAILED)
            EXCEPT !.result.final_status = FAILED, !.exc = None,
                   !.caught = r.exc, !.pc = "finish"]
    ELSE [r EXCEPT !.pc = "raised"]

\* result.total_duration_seconds = time.time() - pipeline_start; return result
run_return(r) ==
    [r EXCEPT !.result.total_duration_seconds = r.now - r.pipeline_start,
              !.pc = "returned"]

\* the statements of run() after its try statement raise exc: no handler of
\* run() covers them, the exception leaves run()
fault(r, exc) == [r EXCEPT !.exc = exc, !.pc = "raised"]

\* ----------------------------------------------------------- BatchExecutor
\* Fields of a batch executor b:
\*   config                 self.config
\*   pc                     where its run_batch() call stands
\*   script_paths, parallel, max_workers
\*                          the arguments of run_batch()
\*   results                the list run_batch() builds and returns
\*   i                      _run_sequential: the loop index
\*   single                 _run_sequential: the runner of the run_single
\*                          call in progress
\*   futures                _run_parallel: one future per submitted script,
\*                          in submission order: whether a worker thread has
\*                          taken it, the runner of its run_single call, and
\*                          whether as_completed has yielded it
\*   order                  history: the indices in the order as_completed
\*                          yielded them

\* a slot of [None] * len(script_paths) that was never assigned
NoneSlot == [none |-> TRUE]

BatchExecutor(config) ==
    [config |-> config, pc |-> "idle", script_paths |-> <<>>,
     parallel |-> FALSE, max_workers |-> 0, results |-> <<>>, i |-> 0,
     single |-> PipelineRunner(config), futures |-> <<>>, order |-> <<>>]

\* What the collaborators do with a script: they are deterministic, so the
\* script decides it.  hamlet.txt has one scene and every stage succeeds
\* (phase_5 is not installed); macbeth.txt cannot be parsed; in othello.txt
\* the retriever fails on the first of two scenes; the parser returns the
\* one scene of lear.txt as a string, not as a dict; sonnet.txt parses to no
\* scene at all.
Collaborators(script_path) ==
    CASE script_path = "macbeth.txt" ->
            [parse |-> Raise("cannot read script"),
             enrich |-> Raise("emotion model failed"),
             retrieve |-> Raise("retriever failed"),
             decide |-> Raise("engine failed"),
             simulate |-> "ImportError"]
      [] script_path = "othello.txt" ->
            [parse |-> Return(ParsedScenes(<<"dict", "dict">>, TRUE)),
             enrich |-> Return([primary_emotion |-> "joy", confidence |-> 8]),
             retrieve |-> Raise("retriever failed"),
             decide |-> Raise("engine failed"),
             simulate |-> "ImportError"]
      [] script_path = "sonnet.txt" ->
            [parse |-> Return(<<>>),
             enrich |-> Return([primary_emotion |-> "joy", confidence |-> 8]),
             retrieve |-> Return(<<"warm", "amber", "wash">>),
             decide |-> Return(LightingInstruction(<<Group("front_wash", 10)>>)),
             simulate |-> "ImportError"]
      [] script_path = "lear.txt" ->
            [parse |-> Return(ParsedScenes(<<"str">>, FALSE)),
             enrich |-> Return([primary_emotion |-> "joy", confidence |-> 8]),
             retrieve |-> Return(<<"warm", "amber", "wash">>),
             decide |-> Return(LightingInstruction(<<Group("front_wash", 10)>>)),
             simulate |-> "ImportError"]
      [] OTHER ->
            [parse |-> Return(ParsedScenes(<<"dict">>, FALSE)),
             enrich |-> Return([primary_emotion |-> "joy", confidence |-> 8]),
             retrieve |-> Return(<<"warm", "amber", "wash">>),
             decide |-> Return(LightingInstruction(<<Group("front_wash", 10)>>)),
             simulate |-> "ImportError"]

\* the next step of the run() call of runner r on its script
run_step(r, dt) ==
    LET c == Collaborators(r.result.script_path)
    IN CASE r.pc = "phase_1" -> _run_phase_1(r, c.parse, dt)
         [] r.pc = "start_pipeline" -> run_start_pipeline(r)
         [] r.pc = "scene" -> run_next_scene(r)
         [] r.pc = "phase_2" -> _run_phase_2(r, c.enrich, dt)
         [] r.pc = "phase_3" -> _run_phase_3(r, c.retrieve, dt)
         [] r.pc = "phase_4" -> _run_phase_4(r, c.decide, dt)
         [] r.pc = "phase_5" -> run_phase_5(r, c.simulate, dt)
         [] r.pc = "phase_7" -> run_phase_7(r)
         [] r.pc = "phase_8" -> run_phase_8(r)
         [] r.pc = "complete" -> run_complete(r)
         [] r.pc = "except" -> run_except(r)
         [] r.pc = "finish" -> run_return(r)
         [] OTHER -> r

\* the run() call of r has ended: it returned, or an exception left it
run_ended(r) == r.pc \in {"returned", "raised"}

\* runner.run(script_path) from the step of r on, as one call
RECURSIVE run_to_end(_, _)
run_to_end(r, dt) ==
    IF run_ended(r) THEN r ELSE run_to_end(run_step(r, dt), dt)

\* run_single, entered: runner = PipelineRunner(self.config); runner.run(path)
run_single(b, script_path) == run_enter(PipelineRunner(b.config), script_path)

Future(runner) == [taken |-> FALSE, runner |-> runner, yielded |-> FALSE]

\* a submit whose callable reads the loop variable late: every worker runs
\* the last path
Mutant_run_batch(b, script_paths, parallel, max_workers) ==
    IF parallel
    THEN [b EXCEPT !.script_paths = script_paths, !.parallel = TRUE,
                   !.max_workers = max_workers,
                   !.results = [k \in 1..Len(script_paths) |-> NoneSlot],
                   !.futures = [k \in 1..Len(script_paths) |->
                                   Future(run_single(b,
                                       script_paths[Len(script_paths)]))],
                   !.pc = "as_completed"]
    ELSE [b EXCEPT !.script_paths = script_paths, !.parallel = FALSE,
                   !.max_workers = max_workers,
                   !.results = <<>>, !.i = 0, !.pc = "sequential"]

\* run_batch up to the loop of _run_sequential or of _run_parallel:
\* results = [] / results = [None] * len(script_paths) and every submit
run_batch(b, script_paths, parallel, max_workers) ==
    IF parallel
    THEN [b EXCEPT !.script_paths = script_paths, !.parallel = TRUE,
                   !.max_workers = max_workers,
                   !.results = [k \in 1..Len(script_paths) |-> NoneSlot],
                   !.futures = [k \in 1..Len(script_paths) |->
                                   Future(run_single(b, script_paths[k]))],
                   !.pc = "as_completed"]
    ELSE [b EXCEPT !.script_paths = script_paths, !.parallel = FALSE,
                   !.max_workers = max_workers,
                   !.results = <<>>, !.i = 0, !.pc = "sequential"]

\* _run_sequential: the head of the loop calls run_single for the next script
sequential_call(b) ==
    [b EXCEPT !.single = run_single(b, b.script_paths[b.i + 1]),
              !.pc = "run_single"]

\* _run_sequential: results.append(result); an exception out of run_single
\* is not caught and leaves run_batch
sequential_append(b) ==
    IF b.single.pc = "raised"
    THEN [b EXCEPT !.pc = "raised"]
    ELSE [b EXCEPT !.results = Append(@, b.single.result),
                   !.i = @ + 1, !.pc = "sequential"]

\* _run_sequential from the loop head of b on, as one call
RECURSIVE _run_sequential(_, _)
_run_sequential(b, dt) ==
    IF b.pc # "sequential" THEN b
    ELSE IF b.i = Len(b.script_paths) THEN [b EXCEPT !.pc = "returned"]
    ELSE _run_sequential(
            sequential_append([sequential_call(b)
                                  EXCEPT !.single = run_to_end(@, dt)]), dt)

\* max_workers: int = 4
DefaultMaxWorkers == 4

\* The directory "." exists, the directory "missing" does not.
exists(directory) == directory = "."

\* p.match(pattern) for the patterns "*.txt" and "*.json"
matches(name, pattern) ==
    \/ pattern = "*.txt" /\ name \in {"hamlet.txt", "macbeth.txt"}
    \/ pattern = "*.json" /\ name \in {"cues.json"}

\* sorted(str(p) for p in dir_path.glob(pattern)): the names in entries that
\* match, in alphabetical order
glob(entries, pattern) ==
    SelectSeq(<<"cues.json", "hamlet.txt", "macbeth.txt", "notes.md">>,
              LAMBDA name : name \in entries /\ matches(name, pattern))

\* a run_directory that hands an empty list on to run_batch
Mutant_run_directory(b, directory, entries, pattern, parallel) ==
    IF ~exists(directory)
    THEN run_batch(b, <<directory>>, parallel, DefaultMaxWorkers)
    ELSE run_batch(b, glob(entries, pattern), parallel, DefaultMaxWorkers)

\* run_directory up to its return [] or up to the loop of run_batch;
\* entries are the names in the directory "."
run_directory(b, directory, entries, pattern, parallel) ==
    IF ~exists(directory)
    THEN [b EXCEPT !.results = <<>>, !.pc = "returned"]
    ELSE IF glob(entries, pattern) = <<>>
    THEN [b EXCEPT !.results = <<>>, !.pc = "returned"]
    ELSE run_batch(b, glob(entries, pattern), parallel, DefaultMaxWorkers)

\* the futures a worker thread is running
Running(b) ==
    {k \in DOMAIN b.futures :
        b.futures[k].taken /\ ~run_ended(b.futures[k].runner)}

\* ThreadPoolExecutor: a free worker thread takes the oldest queued work item
CanTake(b, k) ==
    /\ k \in DOMAIN b.futures
    /\ ~b.futures[k].taken
    /\ \A j \in 1..(k - 1) : b.futures[j].taken
    /\ Cardinality(Running(b)) < b.max_workers

\* a plausible bug: results filled in completion order
Mutant_parallel_collect(b, idx) ==
    [b EXCEPT !.results[Len(b.order) + 1] =
                  IF b.futures[idx].runner.pc = "raised"
                  THEN PipelineResult(b.script_paths[idx], FAILED)
                  ELSE b.futures[idx].runner.result,
              !.futures[idx].yielded = TRUE,
              !.order = Append(@, idx)]

\* a future_to_idx that maps every future to the first index
Mutant_parallel_first(b, idx) ==
    [b EXCEPT !.results[1] =
                  IF b.futures[idx].runner.pc = "raised"
                  THEN PipelineResult(b.script_paths[idx], FAILED)
                  ELSE b.futures[idx].runner.result,
              !.futures[idx].yielded = TRUE,
              !.order = Append(@, idx)]

\* a placeholder built without a final status: it keeps the default, Pending
Mutant_parallel_pending(b, idx) ==
    IF b.futures[idx].runner.pc = "raised"
            /\ b.futures[idx].runner.exc \notin Exceptions
    THEN [b EXCEPT !.pc = "raised"]
    ELSE [b EXCEPT !.results[idx] =
                       IF b.futures[idx].runner.pc = "raised"
                       THEN PipelineResult(b.script_paths[idx], PENDING)
                       ELSE b.futures[idx].runner.result,
                   !.futures[idx].yielded = TRUE,
                   !.order = Append(@, idx)]

\* an as_completed loop without the except clause
Mutant_parallel_reraise(b, idx) ==
    IF b.futures[idx].runner.pc = "raised"
    THEN [b EXCEPT !.pc = "raised"]
    ELSE [b EXCEPT !.results[idx] = b.futures[idx].runner.result,
                   !.futures[idx].yielded = TRUE,
                   !.order = Append(@, idx)]

\* _run_parallel: the body of the as_completed loop for the future of idx:
\* results[idx] = future.result(), or the Failed placeholder when
\* future.result() raises an Exception; any other exception leaves run_batch
parallel_collect(b, idx) ==
    IF b.futures[idx].runner.pc = "raised"
            /\ b.futures[idx].runner.exc \notin Exceptions
    THEN [b EXCEPT !.pc = "raised"]
    ELSE [b EXCEPT !.results[idx] =
                       IF b.futures[idx].runner.pc = "raised"
                       THEN PipelineResult(b.script_paths[idx], FAILED)
                       ELSE b.futures[idx].runner.result,
                   !.futures[idx].yielded = TRUE,
                   !.order = Append(@, idx)]

\* --------------------------------------------------------- summarize_results

\* a / b in floating point; b = 0 raises ZeroDivisionError
Quotient(a, b) == [num |-> a, den |-> b]

\* the int n
Number(n) == [num |-> n, den |-> 1]

RECURSIVE sum(_, _)
sum(results, k) ==
    IF k = 0 THEN 0 ELSE results[k].total_duration_seconds + sum(results, k - 1)

\* a summary that divides without looking at the total
Mutant_summarize_results(results) ==
    LET total == Len(results)
        success == Cardinality({k \in DOMAIN results :
                                   results[k].final_status = SUCCESS})
        failed == Cardinality({k \in DOMAIN results :
                                  results[k].final_status = FAILED})
        total_duration == sum(results, Len(results))
    IN [total_scripts |-> total,
        successful |-> success,
        failed |-> failed,
        success_rate |-> Quotient(success, total),
        total_duration_seconds |-> total_duration,
        average_duration_seconds |-> Quotient(total_duration, total)]

summarize_results(results) ==
    LET total == Len(results)
        success == Cardinality({k \in DOMAIN results :
                                   results[k].final_status = SUCCESS})
        failed == Cardinality({k \in DOMAIN results :
                                  results[k].final_status = FAILED})
        total_duration == sum(results, Len(results))
    IN [total_scripts |-> total,
        successful |-> success,
        failed |-> failed,
        success_rate |->
            IF total > 0 THEN Quotient(success, total) ELSE Number(0),
        total_duration_seconds |-> total_duration,
        average_duration_seconds |->
            IF total > 0 THEN Quotient(total_duration, total) ELSE Number(0)]

\* ------------------------------------------------------------- the caller
\* Fields of the calling code:
\*   results                a list of PipelineResult it holds
\*   summary                the dict summarize_results returned to it
\*   directory, pattern     the arguments of its run_directory call
\*   entries                the names in the directory "." of the file system
\*   runs                   the run() calls it has made on its PipelineRunner
\*   held                   the ExecutionState object get_state() returned to
\*                          it: the place of the object in the runner's heap,
\*                          0 when it holds none
\*   held_after             the run() calls that had ended when it received
\*                          that object
\*   mutated                it has written to the object it holds

NoSummary == [none |-> TRUE]

Caller(results) ==
    [results |-> results, summary |-> NoSummary, directory |-> None,
     pattern |-> None, entries |-> {}, runs |-> 0, held |-> 0,
     held_after |-> 0, mutated |-> FALSE]

\* state = runner.get_state(): StateTracker.get_state returns self._state, the
\* object itself
caller_get_state(c, r) ==
    [c EXCEPT !.held = Len(r.heap), !.held_after = c.runs]

\* what the caller can do to the ExecutionState object it received
Writes == {"status", "phase_results", "output_paths"}

\* state.status = PENDING / state.phase_results.clear() /
\* state.output_paths["plot"] = "out/plot.png", on the object at place h
caller_write(r, h, field) ==
    CASE field = "status" -> [r EXCEPT !.heap[h].status = PENDING]
      [] field = "phase_results" -> [r EXCEPT !.heap[h].phase_results = <<>>]
      [] OTHER -> [r EXCEPT !.heap[h].output_paths =
                                @ \cup {<<"plot", "out/plot.png">>}]

\* ================================================================= phase_7
\* The metrics and trace package.  Intensities of this package are integer
\* numbers of hundredths (82 is 0.82); a float result is the exact quotient
\* the code's expression denotes.

\* ------------------------------------------------------- importing phase_7

Phase7Modules ==
    {"phase_7", "phase_7.trace_logger", "phase_7.metrics", "phase_7.schemas",
     "phase_7.evaluation", "phase_7.evaluation.consistency",
     "phase_7.evaluation.coverage", "phase_7.evaluation.stability"}

\* the modules whose file holds merge-conflict markers ("<<<<<<< HEAD",
\* "=======", ">>>>>>> phase_7") outside its string literals: compiling the
\* file raises SyntaxError
Conflicted == {"phase_7.evaluation.consistency", "phase_7.metrics"}

\* the package whose __init__ runs before module m is loaded
package(m) ==
    CASE m = "phase_7" -> {}
      [] m = "phase_7.evaluation" -> {"phase_7"}
      [] m \in {"phase_7.evaluation.consistency", "phase_7.evaluation.coverage",
                "phase_7.evaluation.stability"} -> {"phase_7.evaluation"}
      [] OTHER -> {"phase_7"}

\* the modules the import statements at the top of module m name
imports(m) ==
    CASE m = "phase_7" ->
            {"phase_7.trace_logger", "phase_7.metrics", "phase_7.schemas"}
      [] m = "phase_7.trace_logger" -> {"phase_7.schemas"}
      [] m = "phase_7.metrics" ->
            {"phase_7.evaluation.consistency", "phase_7.evaluation.coverage",
             "phase_7.evaluation.stability"}
      [] m = "phase_7.evaluation" ->
            {"phase_7.evaluation.consistency", "phase_7.evaluation.coverage",
             "phase_7.evaluation.stability"}
      [] OTHER -> {}

\* every module whose file "import m" makes the interpreter load
RECURSIVE Loads(_)
Loads(ms) ==
    LET more == ms \cup UNION {package(m) \cup imports(m) : m \in ms}
    IN IF more = ms THEN ms ELSE Loads(more)

\* "import m" / "from m import name" in a fresh interpreter: "ok", or the
\* exception that leaves the statement
import_module(m) ==
    IF Loads({m}) \cap Conflicted # {} THEN "SyntaxError" ELSE "ok"

\* an exception of class exc leaves a statement of the session
Thrown(exc) == [raised |-> TRUE, exc |-> exc]

\* ---------------------------------------------- evaluation/consistency.py

INTENSITY_EPSILON == 5

\* q1 + q2 and q / 2 on quotients
Plus(q1, q2) == Quotient(q1.num * q2.den + q2.num * q1.den, q1.den * q2.den)
Half(q) == Quotient(q.num, 2 * q.den)

abs(x) == IF x < 0 THEN -x ELSE x

compute_jaccard_similarity(set_a, set_b) ==
    IF set_a = {} /\ set_b = {} THEN Number(1)
    ELSE LET intersection == Cardinality(set_a \cap set_b)
             union == Cardinality(set_a \cup set_b)
         IN IF union > 0 THEN Quotient(intersection, union) ELSE Number(0)

\* a group of an instruction dict; a transition that is absent, None or has
\* no "type" is the transition of type None
GroupDict(group_id, intensity, type) ==
    [group_id |-> group_id, parameters |-> [intensity |-> intensity],
     transition |-> [type |-> type]]

InstructionDict(groups) == [groups |-> groups]

extract_group_ids(instruction) ==
    {instruction.groups[i].group_id : i \in DOMAIN instruction.groups}

\* {g["group_id"]: g for g in instruction.get("groups", [])}: of the groups
\* that share an id the last one stays
groups_by_id(instruction) ==
    LET groups == instruction.groups
    IN [gid \in {groups[i].group_id : i \in DOMAIN groups} |->
          groups[CHOOSE i \in DOMAIN groups :
                    /\ groups[i].group_id = gid
                    /\ \A j \in DOMAIN groups :
                          groups[j].group_id = gid => j <= i]]

\* returns (score, breakdown), here a record of the two
compute_determinism_score(instruction_a, instruction_b, epsilon) ==
    LET groups_a == groups_by_id(instruction_a)
        groups_b == groups_by_id(instruction_b)
        ids_a == DOMAIN groups_a
        ids_b == DOMAIN groups_b
        group_match == compute_jaccard_similarity(ids_a, ids_b)
        common_ids == ids_a \cap ids_b
        intensity_ok(gid) ==
            abs(groups_a[gid].parameters.intensity
                    - groups_b[gid].parameters.intensity) <= epsilon
        transition_ok(gid) ==
            groups_a[gid].transition.type = groups_b[gid].transition.type
        param_matches ==
            {gid \in common_ids : intensity_ok(gid) /\ transition_ok(gid)}
        param_score ==
            IF common_ids # {}
            THEN Quotient(Cardinality(param_matches), Cardinality(common_ids))
            ELSE Number(1)
    IN [score |-> Half(Plus(group_match, param_score)),
        breakdown |->
            [group_match |-> group_match,
             param_score |-> param_score,
             intensity_epsilon |-> epsilon,
             common_groups |-> Cardinality(common_ids),
             intensity_matches |->
                 Cardinality({gid \in common_ids : intensity_ok(gid)}),
             transition_matches |->
                 Cardinality({gid \in common_ids : transition_ok(gid)})]]

\* -------------------------------------------------------------- metrics.py

MetricsEngine(available_groups) == [available_groups |-> available_groups]

PairEpsilon == 5

evaluate_pair(engine, instruction_a, instruction_b, epsilon) ==
    LET scored == compute_determinism_score(instruction_a, instruction_b, epsilon)
    IN [determinism_score |-> scored.score,
        breakdown |-> scored.breakdown,
        jaccard_groups |->
            compute_jaccard_similarity(extract_group_ids(instruction_a),
                                       extract_group_ids(instruction_b))]

\* --------------------------------------------------------- trace_logger.py
\* A logger is a record: run_id, seed, entries.  The one file it writes,
\* trace_{run_id}.json in its output directory, is a field of the session.

NoSeed == -1            \* seed is None

TraceLogger(run_id, seed) == [run_id |-> run_id, seed |-> seed, entries |-> <<>>]

\* the first 16 hex digits of the SHA-256 digest of the data written as JSON
\* with sorted keys: equal data give equal hashes
compute_hash(data) == [sha256 |-> data]

TraceEntry(run_id, seed, scene_id, timestamp, input_hash, output_hash, refs) ==
    [run_id |-> run_id, seed |-> seed, scene_id |-> scene_id,
     timestamp |-> timestamp, input_hash |-> input_hash,
     output_hash |-> output_hash, rag_context_ids |-> refs]

RAGContextRef(document_id, chunk_id) ==
    [document_id |-> document_id, chunk_id |-> chunk_id]

\* the entry log_decision builds at clock reading now; a scene without a
\* "scene_id" key is logged as "unknown"
log_decision_entry(logger, scene, lighting_instruction, rag_context_ids, now) ==
    TraceEntry(logger.run_id, logger.seed,
               IF scene.scene_id # None THEN scene.scene_id ELSE "unknown",
               now, compute_hash(scene), compute_hash(lighting_instruction),
               rag_context_ids)

\* scene.get raises AttributeError on a scene that is not a dict, before
\* anything is appended
log_decision_raises(scene) == scene.kind # "dict"

log_decision(logger, scene, lighting_instruction, rag_context_ids, now) ==
    IF log_decision_raises(scene) THEN logger
    ELSE [logger EXCEPT !.entries =
            Append(@, log_decision_entry(logger, scene, lighting_instruction,
                                         rag_context_ids, now))]

\* the JSON document save() writes
save(logger, now) ==
    [run_id |-> logger.run_id, created_at |-> now, entries |-> logger.entries]

get_entry_count(logger) == Len(logger.entries)

clear(logger) == [logger EXCEPT !.entries = <<>>]

\* ----------------------------------------------------- a phase_7 session
\* Fields of a session:
\*   pc                     where the session stands
\*   set_a, set_b           the sets it compares
\*   instruction            the instruction dict it scores
\*   jaccard, score, pair   what its calls returned or raised
\*   seed                   the seed it builds its logger with
\*   logger                 its TraceLogger, once built
\*   file                   the trace file in its output directory
\*   asked                  the logger calls it has made, in order
\*   answers                what each of them returned or raised
\*   now                    the clock

NoAnswer == [none |-> TRUE]
NoLogger == [none |-> TRUE]
NoFile == [none |-> TRUE]

Session ==
    [pc |-> "idle", set_a |-> {}, set_b |-> {},
     instruction |-> InstructionDict(<<>>),
     jaccard |-> NoAnswer, score |-> NoAnswer, pair |-> NoAnswer,
     seed |-> NoSeed, logger |-> NoLogger, file |-> NoFile,
     asked |-> <<>>, answers |-> <<>>, now |-> 0]

\* from phase_7.evaluation.consistency import compute_jaccard_similarity
\* compute_jaccard_similarity(set_a, set_b)
session_jaccard(s) ==
    [s EXCEPT !.jaccard =
        IF import_module("phase_7.evaluation.consistency") = "ok"
        THEN Return(compute_jaccard_similarity(s.set_a, s.set_b))
        ELSE Thrown(import_module("phase_7.evaluation.consistency"))]

\* from phase_7.evaluation.consistency import compute_determinism_score
\* compute_determinism_score(x, x)
session_score(s) ==
    [s EXCEPT !.score =
        IF import_module("phase_7.evaluation.consistency") = "ok"
        THEN Return(compute_determinism_score(s.instruction, s.instruction,
                                              INTENSITY_EPSILON))
        ELSE Thrown(import_module("phase_7.evaluation.consistency"))]

\* from phase_7.metrics import MetricsEngine
\* MetricsEngine().evaluate_pair(x, x)
session_pair(s) ==
    [s EXCEPT !.pair =
        IF import_module("phase_7.metrics") = "ok"
        THEN Return(evaluate_pair(MetricsEngine({}), s.instruction,
                                  s.instruction, PairEpsilon))
        ELSE Thrown(import_module("phase_7.metrics"))]

\* from phase_7.trace_logger import TraceLogger
\* logger = TraceLogger(output_dir, seed=seed)
session_logger(s, run_id) ==
    IF import_module("phase_7.trace_logger") = "ok"
    THEN [s EXCEPT !.logger = TraceLogger(run_id, s.seed),
                   !.answers = Append(@, Return(None)), !.pc = "logging"]
    ELSE [s EXCEPT !.answers = Append(@, Thrown(import_module("phase_7.trace_logger"))),
                   !.pc = "logging"]

\* a statement on the name logger; the name is unbound when the import failed
session_call(s, call) ==
    LET t == [s EXCEPT !.asked = Append(@, call), !.now = @ + 1]
    IN IF s.logger = NoLogger
       THEN [t EXCEPT !.answers = Append(@, Thrown("NameError"))]
       ELSE CASE call.op = "log_decision" ->
                    IF log_decision_raises(call.scene)
                    THEN [t EXCEPT !.answers = Append(@, Thrown("AttributeError"))]
                    ELSE [t EXCEPT
                            !.logger = log_decision(s.logger, call.scene,
                                           call.lighting_instruction,
                                           call.rag_context_ids, s.now),
                            !.answers = Append(@,
                                Return(log_decision_entry(s.logger, call.scene,
                                           call.lighting_instruction,
                                           call.rag_context_ids, s.now)))]
              [] call.op = "clear" ->
                    [t EXCEPT !.logger = clear(s.logger),
                              !.answers = Append(@, Return(None))]
              [] OTHER ->
                    [t EXCEPT !.file = save(s.logger, s.now),
                              !.answers = Append(@, Return("trace.json"))]

\* ============================================================ one run
\* Spec: one PipelineRunner, built with any configuration, runs one script.

VARIABLES
    runner,     \* the PipelineRunner and the frame of its run() call
    tick,       \* seconds a collaborator call takes in this execution
    batch,      \* the BatchExecutor and the frame of its run_batch() call
    caller,     \* what the code that uses the three classes holds
    session     \* a Python session that uses the phase_7 package

vars == <<runner, tick, batch, caller, session>>

Scripts == {"hamlet.txt", "macbeth.txt"}

Init ==
    /\ tick \in 0..MaxTick
    /\ runner \in {PipelineRunner(c) : c \in Configs}
    /\ batch = BatchExecutor(runner.config)
    /\ caller = Caller(<<>>)
    /\ session = Session

Run ==
    /\ runner.pc = "idle"
    /\ \E script_path \in Scripts : runner' = run_enter(runner, script_path)
    /\ UNCHANGED <<tick, batch, caller, session>>

Phase1 ==
    /\ runner.pc = "phase_1"
    /\ \E out \in ParseOutcomes : runner' = _run_phase_1(runner, out, tick)
    /\ UNCHANGED <<tick, batch, caller, session>>

StartPipeline ==
    /\ runner.pc = "start_pipeline"
    /\ runner' = run_start_pipeline(runner)
    /\ UNCHANGED <<tick, batch, caller, session>>

NextScene ==
    /\ runner.pc = "scene"
    /\ runner' = run_next_scene(runner)
    /\ UNCHANGED <<tick, batch, caller, session>>

Phase2 ==
    /\ runner.pc = "phase_2"
    /\ \E out \in EnrichOutcomes : runner' = _run_phase_2(runner, out, tick)
    /\ UNCHANGED <<tick, batch, caller, session>>

Phase3 ==
    /\ runner.pc = "phase_3"
    /\ \E out \in RetrieveOutcomes : runner' = _run_phase_3(runner, out, tick)
    /\ UNCHANGED <<tick, batch, caller, session>>

Phase4 ==
    /\ runner.pc = "phase_4"
    /\ \E out \in FlowDecideOutcomes : runner' = _run_phase_4(runner, out, tick)
    /\ UNCHANGED <<tick, batch, caller, session>>

Phase5 ==
    /\ runner.pc = "phase_5"
    /\ \E out \in SimulateOutcomes : runner' = run_phase_5(runner, out, tick)
    /\ UNCHANGED <<tick, batch, caller, session>>

Phase7 ==
    /\ runner.pc = "phase_7"
    /\ runner' = run_phase_7(runner)
    /\ UNCHANGED <<tick, batch, caller, session>>

Phase8 ==
    /\ runner.pc = "phase_8"
    /\ runner' = run_phase_8(runner)
    /\ UNCHANGED <<tick, batch, caller, session>>

Complete ==
    /\ runner.pc = "complete"
    /\ runner' = run_complete(runner)
    /\ UNCHANGED <<tick, batch, caller, session>>

Except ==
    /\ runner.pc = "except"
    /\ runner' = run_except(runner)
    /\ UNCHANGED <<tick, batch, caller, session>>

ReturnResult ==
    /\ runner.pc = "finish"
    /\ runner' = run_return(runner)
    /\ UNCHANGED <<tick, batch, caller, session>>

Next ==
    \/ Run \/ Phase1 \/ StartPipeline \/ NextScene \/ Phase2 \/ Phase3
    \/ Phase4 \/ Phase5 \/ Phase7 \/ Phase8 \/ Complete \/ Except
    \/ ReturnResult

Spec == Init /\ [][Next]_vars

\* run() is one sequential call: a step that can be taken is taken
FairSpec == Spec /\ WF_vars(Next)

\* ------------------------------------------------- the contract check
\* GateSpec: a runner with the default configuration runs a script of one or
\* two scenes, and the engine may return any instruction of up to MaxGroups
\* groups.

DefaultConfig == PipelineConfig(TRUE, TRUE, FALSE)

GateParseOutcomes ==
    {Return(ParsedScenes(kinds, FALSE)) : kinds \in {<<"dict">>, <<"dict", "dict">>}}

GateInit ==
    /\ tick \in 0..MaxTick
    /\ runner = PipelineRunner(DefaultConfig)
    /\ batch = BatchExecutor(DefaultConfig)
    /\ caller = Caller(<<>>)
    /\ session = Session

GatePhase1 ==
    /\ runner.pc = "phase_1"
    /\ \E out \in GateParseOutcomes : runner' = _run_phase_1(runner, out, tick)
    /\ UNCHANGED <<tick, batch, caller, session>>

GatePhase4 ==
    /\ runner.pc = "phase_4"
    /\ \E out \in DecideOutcomes : runner' = _run_phase_4(runner, out, tick)
    /\ UNCHANGED <<tick, batch, caller, session>>

GateNext ==
    \/ Run \/ GatePhase1 \/ StartPipeline \/ NextScene \/ Phase2 \/ Phase3
    \/ GatePhase4 \/ Phase5 \/ Phase7 \/ Phase8 \/ Complete \/ Except
    \/ ReturnResult

GateSpec == GateInit /\ [][GateNext]_vars

\* ============================================================== one batch
\* BatchSpec: one BatchExecutor with the default configuration runs one
\* batch of up to MaxBatch scripts, sequentially or on up to MaxWorkers
\* worker threads.

BatchScripts == {"hamlet.txt", "macbeth.txt", "othello.txt"}

BatchInit ==
    /\ tick = MaxTick
    /\ runner = PipelineRunner(DefaultConfig)
    /\ batch = BatchExecutor(DefaultConfig)
    /\ caller = Caller(<<>>)
    /\ session = Session

RunBatch ==
    /\ batch.pc = "idle"
    /\ \E script_paths \in SeqsUpTo(BatchScripts, MaxBatch),
          parallel \in BOOLEAN, max_workers \in 1..MaxWorkers :
            batch' = run_batch(batch, script_paths, parallel, max_workers)
    /\ UNCHANGED <<runner, tick, caller, session>>

SequentialCall ==
    /\ batch.pc = "sequential"
    /\ batch.i < Len(batch.script_paths)
    /\ batch' = sequential_call(batch)
    /\ UNCHANGED <<runner, tick, caller, session>>

SequentialStep ==
    /\ batch.pc = "run_single"
    /\ ~run_ended(batch.single)
    /\ batch' = [batch EXCEPT !.single = run_step(@, tick)]
    /\ UNCHANGED <<runner, tick, caller, session>>

SequentialAppend ==
    /\ batch.pc = "run_single"
    /\ run_ended(batch.single)
    /\ batch' = sequential_append(batch)
    /\ UNCHANGED <<runner, tick, caller, session>>

SequentialReturn ==
    /\ batch.pc = "sequential"
    /\ batch.i = Len(batch.script_paths)
    /\ batch' = [batch EXCEPT !.pc = "returned"]
    /\ UNCHANGED <<runner, tick, caller, session>>

WorkerTake ==
    /\ batch.pc = "as_completed"
    /\ \E k \in DOMAIN batch.futures :
          /\ CanTake(batch, k)
          /\ batch' = [batch EXCEPT !.futures[k].taken = TRUE]
    /\ UNCHANGED <<runner, tick, caller, session>>

WorkerStep ==
    /\ batch.pc = "as_completed"
    /\ \E k \in Running(batch) :
          batch' = [batch EXCEPT !.futures[k].runner = run_step(@, tick)]
    /\ UNCHANGED <<runner, tick, caller, session>>

ParallelCollect ==
    /\ batch.pc = "as_completed"
    /\ \E idx \in DOMAIN batch.futures :
          /\ batch.futures[idx].taken
          /\ run_ended(batch.futures[idx].runner)
          /\ ~batch.futures[idx].yielded
          /\ batch' = parallel_collect(batch, idx)
    /\ UNCHANGED <<runner, tick, caller, session>>

ParallelReturn ==
    /\ batch.pc = "as_completed"
    /\ \A k \in DOMAIN batch.futures : batch.futures[k].yielded
    /\ batch' = [batch EXCEPT !.pc = "returned"]
    /\ UNCHANGED <<runner, tick, caller, session>>

BatchNext ==
    \/ RunBatch \/ SequentialCall \/ SequentialStep \/ SequentialAppend
    \/ SequentialReturn \/ WorkerTake \/ WorkerStep \/ ParallelCollect
    \/ ParallelReturn

BatchSpec == BatchInit /\ [][BatchNext]_vars

\* ------------------------------------------------- a batch with faults
\* FaultSpec: a batch of up to MaxBatch scripts whose runs fail, or one of
\* five scripts of which one cannot be parsed, where the run() call of up to
\* MaxFaults worker threads may raise after its try statement.

FaultScripts == {"macbeth.txt", "lear.txt"}

\* five scripts, max_workers = 2, the Parse of exactly one of them raises
FiveScripts ==
    {[k \in 1..5 |-> IF k = f THEN "macbeth.txt" ELSE "sonnet.txt"] : f \in 1..5}

FaultRunBatch ==
    /\ batch.pc = "idle"
    /\ \/ \E script_paths \in SeqsUpTo(FaultScripts, MaxBatch),
              parallel \in BOOLEAN, max_workers \in 1..MaxWorkers :
                batch' = run_batch(batch, script_paths, parallel, max_workers)
       \/ \E script_paths \in FiveScripts :
                batch' = run_batch(batch, script_paths, TRUE, 2)
    /\ UNCHANGED <<runner, tick, caller, session>>

\* the worker threads that have faulted
FaultedWorkers(b) ==
    {k \in DOMAIN b.futures : b.futures[k].runner.pc = "raised"}

WorkerFault ==
    /\ batch.pc = "as_completed"
    /\ Cardinality(FaultedWorkers(batch)) < MaxFaults
    /\ \E k \in Running(batch) :
          /\ batch.futures[k].runner.pc = "finish"
          /\ batch' = [batch EXCEPT !.futures[k].runner = fault(@, "RuntimeError")]
    /\ UNCHANGED <<runner, tick, caller, session>>

FaultNext ==
    \/ FaultRunBatch \/ SequentialCall \/ SequentialStep \/ SequentialAppend
    \/ SequentialReturn \/ WorkerTake \/ WorkerStep \/ WorkerFault
    \/ ParallelCollect \/ ParallelReturn

FaultSpec == BatchInit /\ [][FaultNext]_vars

\* ------------------------------------------------------------- a summary
\* SummarySpec: the caller holds any list of up to MaxBatch results, of any
\* final status and any duration up to MaxTick seconds, and summarizes it.

SummaryResults ==
    {[PipelineResult("hamlet.txt", st) EXCEPT !.total_duration_seconds = d] :
        st \in PhaseStatus, d \in 0..MaxTick}

SummaryInit ==
    /\ tick = MaxTick
    /\ runner = PipelineRunner(DefaultConfig)
    /\ batch = BatchExecutor(DefaultConfig)
    /\ caller \in {Caller(results) : results \in SeqsUpTo(SummaryResults, MaxBatch)}
    /\ session = Session

Summarize ==
    /\ caller.summary = NoSummary
    /\ caller' = [caller EXCEPT !.summary = summarize_results(caller.results)]
    /\ UNCHANGED <<runner, tick, batch, session>>

SummaryNext == Summarize

SummarySpec == SummaryInit /\ [][SummaryNext]_vars

\* ------------------------------------------------------------ a directory
\* DirectorySpec: the directory "." holds any of four files; the caller runs
\* run_directory on it or on a directory that does not exist, with a pattern
\* for scripts or one for cue files.

DirEntries == {"cues.json", "hamlet.txt", "macbeth.txt", "notes.md"}

DirectoryInit ==
    /\ tick = MaxTick
    /\ runner = PipelineRunner(DefaultConfig)
    /\ batch = BatchExecutor(DefaultConfig)
    /\ caller \in {[Caller(<<>>) EXCEPT !.entries = entries] :
                        entries \in SUBSET DirEntries}
    /\ session = Session

RunDirectory ==
    /\ batch.pc = "idle"
    /\ \E directory \in {".", "missing"}, pattern \in {"*.txt", "*.json"},
          parallel \in BOOLEAN :
            /\ batch' = run_directory(batch, directory, caller.entries,
                                      pattern, parallel)
            /\ caller' = [caller EXCEPT !.directory = directory,
                                        !.pattern = pattern]
    /\ UNCHANGED <<runner, tick, session>>

DirectoryNext ==
    \/ RunDirectory \/ SequentialCall \/ SequentialStep \/ SequentialAppend
    \/ SequentialReturn \/ WorkerTake \/ WorkerStep \/ ParallelCollect
    \/ ParallelReturn

DirectorySpec == DirectoryInit /\ [][DirectoryNext]_vars

\* ----------------------------------------------------- a runner, reused
\* ReuseSpec: one PipelineRunner with the default configuration makes up to
\* MaxRuns run() calls, one after the other, with deterministic
\* collaborators; between the calls the caller may ask for the state and
\* write to the object it received.

ReuseScripts == {"hamlet.txt", "macbeth.txt", "othello.txt", "lear.txt"}

ReuseRun ==
    /\ runner.pc \in {"idle", "returned"}
    /\ caller.runs < MaxRuns
    /\ \E script_path \in ReuseScripts :
          runner' = run_enter(runner, script_path)
    /\ caller' = [caller EXCEPT !.runs = @ + 1]
    /\ UNCHANGED <<tick, batch, session>>

ReuseStep ==
    /\ runner.pc \notin {"idle", "returned", "raised"}
    /\ runner' = run_step(runner, tick)
    /\ UNCHANGED <<tick, batch, caller, session>>

GetState ==
    /\ runner.pc \in {"idle", "returned"}
    /\ caller.held # Len(runner.heap)
    /\ caller' = caller_get_state(caller, runner)
    /\ UNCHANGED <<runner, tick, batch, session>>

Write ==
    /\ runner.pc \in {"idle", "returned"}
    /\ caller.held # 0
    /\ ~caller.mutated
    /\ \E field \in Writes : runner' = caller_write(runner, caller.held, field)
    /\ caller' = [caller EXCEPT !.mutated = TRUE]
    /\ UNCHANGED <<tick, batch, session>>

ReuseNext == ReuseRun \/ ReuseStep \/ GetState \/ Write

ReuseSpec == BatchInit /\ [][ReuseNext]_vars

\* ========================================================= phase_7 sessions
\* JaccardSpec: a session holds two sets of group ids and compares them.
\* DeterminismSpec: a session holds an instruction dict and scores it against
\* itself, with compute_determinism_score and with MetricsEngine.evaluate_pair.
\* TraceSpec: a session builds a TraceLogger and makes up to MaxOps calls of
\* log_decision, clear and save on it.

GroupName(k) == <<"G1", "G2", "G3", "G4", "G5">>[k]

Ids == {GroupName(k) : k \in 1..MaxIds}

Phase6Idle ==
    /\ tick = MaxTick
    /\ runner = PipelineRunner(DefaultConfig)
    /\ batch = BatchExecutor(DefaultConfig)
    /\ caller = Caller(<<>>)

JaccardInit ==
    /\ Phase6Idle
    /\ session \in {[Session EXCEPT !.pc = "ready", !.set_a = a, !.set_b = b] :
                        a \in SUBSET Ids, b \in SUBSET Ids}

Jaccard ==
    /\ session.pc = "ready"
    /\ session.jaccard = NoAnswer
    /\ session' = session_jaccard(session)
    /\ UNCHANGED <<runner, tick, batch, caller>>

JaccardNext == Jaccard

JaccardSpec == JaccardInit /\ [][JaccardNext]_vars

GroupDicts ==
    {GroupDict(g, i, t) : g \in Ids, i \in {80, 82, 90}, t \in {None, "fade"}}

InstructionDicts ==
    {InstructionDict(gs) : gs \in SeqsUpTo(GroupDicts, MaxGroups)}

DeterminismInit ==
    /\ Phase6Idle
    /\ session \in {[Session EXCEPT !.pc = "ready", !.instruction = x] :
                        x \in InstructionDicts}

Score ==
    /\ session.pc = "ready"
    /\ session.score = NoAnswer
    /\ session' = session_score(session)
    /\ UNCHANGED <<runner, tick, batch, caller>>

Pair ==
    /\ session.pc = "ready"
    /\ session.pair = NoAnswer
    /\ session' = session_pair(session)
    /\ UNCHANGED <<runner, tick, batch, caller>>

DeterminismNext == Score \/ Pair

DeterminismSpec == DeterminismInit /\ [][DeterminismNext]_vars

Seeds == {NoSeed, 42}

RunIds == {"run-a", "run-b"}

TraceScenes ==
    {Scene("dict", "scene_001"), Scene("dict", "scene_002"),
     Scene("dict", None), Scene("str", None)}

RagContexts == {<<>>, <<RAGContextRef("doc_001", "chunk_003")>>}

Call(op, scene, lighting_instruction, rag_context_ids) ==
    [op |-> op, scene |-> scene, lighting_instruction |-> lighting_instruction,
     rag_context_ids |-> rag_context_ids]

NoArgs(op) == Call(op, Scene("dict", None), InstructionDict(<<>>), <<>>)

TraceInit ==
    /\ Phase6Idle
    /\ session \in {[Session EXCEPT !.pc = "start", !.seed = seed] :
                        seed \in Seeds}

Construct ==
    /\ session.pc = "start"
    /\ \E run_id \in RunIds : session' = session_logger(session, run_id)
    /\ UNCHANGED <<runner, tick, batch, caller>>

LogDecision ==
    /\ session.pc = "logging"
    /\ Len(session.asked) < MaxOps
    /\ \E scene \in TraceScenes, rag \in RagContexts :
          session' = session_call(session,
                        Call("log_decision", scene, InstructionDict(<<>>), rag))
    /\ UNCHANGED <<runner, tick, batch, caller>>

Clear ==
    /\ session.pc = "logging"
    /\ Len(session.asked) < MaxOps
    /\ session' = session_call(session, NoArgs("clear"))
    /\ UNCHANGED <<runner, tick, batch, caller>>

Save ==
    /\ session.pc = "logging"
    /\ Len(session.asked) < MaxOps
    /\ session' = session_call(session, NoArgs("save"))
    /\ UNCHANGED <<runner, tick, batch, caller>>

TraceNext == Construct \/ LogDecision \/ Clear \/ Save

TraceSpec == TraceInit /\ [][TraceNext]_vars

\* ------------------------------------------------- a clock between stages
\* ClockSpec: the runs of Spec under the default configuration, with a wall
\* clock that also advances between the stages.  run() reads time.time() at
\* its start and after its try statement; start_phase and complete_phase
\* read it around each stage; the statements between two stages (logging,
\* start_pipeline, the head of the scene loop) take up to MaxIdle seconds
\* in all.

\* the sum add_phase_result accumulates: duration_seconds of the first k
\* stage results
RECURSIVE DurationSum(_, _)
DurationSum(phase_results, k) ==
    IF k = 0 THEN 0
    ELSE phase_results[k].duration_seconds + DurationSum(phase_results, k - 1)

\* seconds of this run spent outside every stage so far
idle_seconds(r) ==
    (r.now - r.pipeline_start)
        - DurationSum(r.result.phase_results, Len(r.result.phase_results))

ClockInit ==
    /\ tick \in 0..MaxTick
    /\ runner = PipelineRunner(DefaultConfig)
    /\ batch = BatchExecutor(DefaultConfig)
    /\ caller = Caller(<<>>)
    /\ session = Session

\* the clock advances while run() is between two stages
Elapse ==
    /\ runner.pc \notin {"idle", "returned", "raised"}
    /\ idle_seconds(runner) < MaxIdle
    /\ runner' = [runner EXCEPT !.now = @ + 1]
    /\ UNCHANGED <<tick, batch, caller, session>>

ClockNext == Next \/ Elapse

ClockSpec == ClockInit /\ [][ClockNext]_vars

\* ================================================================ claims

Results == runner.result.phase_results

Calls == runner.calls

Required == {"phase_1", "phase_3", "phase_4"}

\* the collaborator call c ended in an exception
Raised(c) == IF c.stage = "phase_5" THEN c.out # "imported" ELSE c.out.raised

ParseRaised == \E i \in DOMAIN Calls : Calls[i].stage = "phase_1" /\ Raised(Calls[i])

\* C1: when Parse fails, the run's result holds exactly one stage result, the
\* Failed Parse result, its final status is Failed (from the failure on, and
\* when run returns), and no other collaborator is ever called.
C1_ParseFailureAborts ==
    ParseRaised =>
        /\ Len(Results) = 1
        /\ Results[1].phase_name = "phase_1"
        /\ Results[1].status = FAILED
        /\ runner.result.final_status = FAILED
        /\ Len(Calls) = 1
        /\ runner.pc \in {"except", "finish", "returned"}

C1_Witness == ParseRaised /\ runner.pc = "returned"

\* C2 (as claimed): when run returns without having aborted and no REQUIRED
\* stage result is Failed, the final status is Success, whatever the OPTIONAL
\* stages did.
C2_OptionalFailureKeepsSuccess ==
    (/\ runner.pc = "returned"
     /\ runner.caught = None
     /\ \A i \in DOMAIN Results :
            Results[i].phase_name \in Required => Results[i].status # FAILED)
        => runner.result.final_status = SUCCESS

Neutral == [primary_emotion |-> "neutral", confidence |-> 0]

\* after call i the run stands before `stage` for scene k2, or has already
\* called it
ThenComes(i, stage, k2) ==
    \/ Len(Calls) = i /\ runner.pc = stage /\ runner.idx = k2
    \/ Len(Calls) = i /\ stage = "phase_2" /\ runner.pc = "scene" /\ runner.idx = k2
    \/ Len(Calls) > i /\ Calls[i + 1].stage = stage /\ Calls[i + 1].idx = k2

RetrieveRaised(k) ==
    \E i \in DOMAIN Calls :
        Calls[i].stage = "phase_3" /\ Calls[i].idx = k /\ Raised(Calls[i])

DecideCalled == \E i \in DOMAIN Calls : Calls[i].stage = "phase_4"

\* C4 (as claimed): a one-scene run whose Retrieve raises ends Failed with
\* exactly two stage results, Parse Success and Retrieve Failed, and Decide is
\* never called.
C4_RetrieveFailureTwoResults ==
    (runner.pc = "returned" /\ Len(runner.scenes) = 1 /\ RetrieveRaised(0)) =>
        /\ runner.result.final_status = FAILED
        /\ Len(Results) = 2
        /\ Results[1].phase_name = "phase_1" /\ Results[1].status = SUCCESS
        /\ Results[2].phase_name = "phase_3" /\ Results[2].status = FAILED
        /\ ~DecideCalled

\* C4 (amended): a one-scene run whose Retrieve raises ends Failed with
\* exactly three stage results, Parse Success, the Enrich result (Success or
\* Failed) and Retrieve Failed, and Decide is never called.
C4_RetrieveFailureThreeResults ==
    (runner.pc = "returned" /\ Len(runner.scenes) = 1 /\ RetrieveRaised(0)) =>
        /\ runner.result.final_status = FAILED
        /\ Len(Results) = 3
        /\ Results[1].phase_name = "phase_1" /\ Results[1].status = SUCCESS
        /\ Results[2].phase_name = "phase_2"
        /\ Results[2].status \in {SUCCESS, FAILED}
        /\ Results[3].phase_name = "phase_3" /\ Results[3].status = FAILED
        /\ ~DecideCalled

C4_Witness ==
    runner.pc = "returned" /\ Len(runner.scenes) = 1 /\ RetrieveRaised(0)

\* the instruction breaks the contract: some group has no identifier or an
\* intensity below 0.0 or above 1.0
Violates(instruction) ==
    \E g \in DOMAIN instruction.groups :
        \/ instruction.groups[g].group_id = ""
        \/ instruction.groups[g].parameters.intensity < 0
        \/ instruction.groups[g].parameters.intensity > 10

\* C5: whenever Decide returns an instruction that breaks the contract, the
\* Decide result of that scene is recorded Failed, the final status is
\* Failed and the run aborts there: nothing is called or recorded after it.
C5_ContractViolationAborts ==
    \A i \in DOMAIN Calls :
        (/\ Calls[i].stage = "phase_4"
         /\ ~Raised(Calls[i])
         /\ Violates(Calls[i].out.value))
            => /\ Results[i].phase_name = "phase_4"
               /\ Results[i].status = FAILED
               /\ runner.result.final_status = FAILED
               /\ Len(Calls) = i /\ Len(Results) = i
               /\ runner.pc \in {"except", "finish", "returned"}

C5_Witness ==
    /\ runner.pc = "returned"
    /\ \E i \in DOMAIN Calls :
          /\ Calls[i].stage = "phase_4" /\ Calls[i].idx = 1
          /\ ~Raised(Calls[i])
          /\ Len(Calls[i].out.value.groups) = 2
          /\ Calls[i].out.value.groups[1] = Group("front_wash", 10)
          /\ Calls[i].out.value.groups[2] = Group("front_wash", -1)

HardFailed ==
    \E i \in DOMAIN Results :
        Results[i].phase_name \in Required /\ Results[i].status = FAILED

\* C6: once a REQUIRED stage has recorded a Failed result, no step of the run
\* starts a stage, calls a collaborator or appends a stage result.
C6_HardAbort ==
    [][HardFailed =>
        /\ runner'.result.phase_results = runner.result.phase_results
        /\ runner'.calls = runner.calls
        /\ runner'.started = runner.started]_vars

C6_Witness ==
    /\ runner.pc = "returned"
    /\ Len(runner.scenes) = 2
    /\ \E i \in DOMAIN Results :
          /\ Results[i].phase_name = "phase_3" /\ Results[i].status = FAILED
          /\ Calls[i].idx = 0

PhaseCount(phase) ==
    Cardinality({i \in DOMAIN Results : Results[i].phase_name = phase})

CallCount(stage) ==
    Cardinality({i \in DOMAIN Calls : Calls[i].stage = stage})

\* C7 (as claimed): every run that returns, aborted or not, holds exactly one
\* Simulate and exactly one Evaluate stage result.
C7_SimulateEvaluateAlways ==
    runner.pc = "returned" => PhaseCount("phase_5") = 1 /\ PhaseCount("phase_7") = 1

\* C7 (amended): a run that returns without having aborted holds exactly one
\* Simulate and exactly one Evaluate stage result and called the Simulate
\* collaborator at most once; a run that aborted holds neither and did not
\* call it.
C7_SimulateEvaluateUnlessAborted ==
    runner.pc = "returned" =>
        IF runner.caught = None
        THEN /\ PhaseCount("phase_5") = 1 /\ PhaseCount("phase_7") = 1
             /\ CallCount("phase_5") <= 1
        ELSE /\ PhaseCount("phase_5") = 0 /\ PhaseCount("phase_7") = 0
             /\ CallCount("phase_5") = 0

C7_Witness ==
    /\ runner.pc = "returned" /\ runner.caught = None
    /\ Len(runner.lighting_instructions) = 2
    /\ CallCount("phase_5") = 1

\* C8: within a run, a final status that is Failed is Failed after every
\* later step (add_phase_result of any status, mark_complete, the except
\* clauses, the return).
C8_FailedIsPermanent ==
    [][(runner.pc # "idle" /\ runner.result.final_status = FAILED)
            => runner'.result.final_status = FAILED]_vars

C8_Witness ==
    /\ runner.pc = "returned" /\ runner.caught = None
    /\ runner.result.final_status = FAILED
    /\ \E i, j \in DOMAIN Results :
          i < j /\ Results[i].status = FAILED /\ Results[j].status = SUCCESS

\* C9: a run that was started returns, with final status Success or Failed,
\* and no exception leaves run().
C9_RunTerminates ==
    /\ [](runner.pc # "raised")
    /\ [](runner.pc = "returned"
            => runner.result.final_status \in {SUCCESS, FAILED})
    /\ [](runner.pc # "idle" => <>(runner.pc = "returned"))

C9_Witness ==
    /\ runner.pc = "returned"
    /\ runner.caught = "AttributeError"
    /\ runner.result.final_status = FAILED

\* C10: the list run_batch returns, in either mode and whatever the order in
\* which the runs complete, is as long as the input list, has no slot left
\* unassigned, and holds at index i the result of a run of input i: its
\* script_path is input i and it carries that run's stage results.
C10_BatchIndexAligned ==
    batch.pc = "returned" =>
        /\ Len(batch.results) = Len(batch.script_paths)
        /\ \A k \in DOMAIN batch.script_paths :
              /\ batch.results[k] # NoneSlot
              /\ batch.results[k].script_path = batch.script_paths[k]
              /\ Len(batch.results[k].phase_results) >= 1
              /\ batch.results[k].phase_results[1].status =
                    IF Collaborators(batch.script_paths[k]).parse.raised
                    THEN FAILED ELSE SUCCESS

C10_Witness ==
    /\ batch.pc = "returned"
    /\ batch.parallel
    /\ batch.max_workers = 2
    /\ batch.script_paths = <<"hamlet.txt", "macbeth.txt", "othello.txt">>
    /\ batch.order = <<2, 3, 1>>

\* the final status of a result and the names and statuses of its stages
Outcome(res) ==
    [final_status |-> res.final_status,
     stages |-> [i \in DOMAIN res.phase_results |->
                    <<res.phase_results[i].phase_name,
                      res.phase_results[i].status>>]]

\* what a sequential batch of these scripts returns
SequentialResults(script_paths) ==
    _run_sequential(run_batch(BatchExecutor(batch.config), script_paths,
                              FALSE, 1), tick).results

\* the list without its element f
Without(s, f) == [k \in 1..(Len(s) - 1) |-> IF k < f THEN s[k] ELSE s[k + 1]]

\* the worker thread of index k faulted: an exception left its run_single
Faulted(k) ==
    batch.parallel /\ k \in DOMAIN batch.futures
        /\ batch.futures[k].runner.pc = "raised"

\* the run of script_path alone ends Failed
RunFails(script_path) ==
    SequentialResults(<<script_path>>)[1].final_status = FAILED

\* C11: no exception leaves run_batch; the returned list is as long as the
\* input list; at every index f whose run fails or whose worker faulted the
\* result is Failed, and every other index whose worker did not fault holds
\* what a batch without input f holds at that place.  A batch of five with
\* max_workers = 2 and one unparsable script returns five results, Failed at
\* that index and Success at the other four, unless a worker faulted.
C11_PartialFailureContained ==
    /\ batch.pc # "raised"
    /\ batch.pc = "returned" =>
          /\ Len(batch.results) = Len(batch.script_paths)
          /\ \A f \in DOMAIN batch.script_paths :
                (RunFails(batch.script_paths[f]) \/ Faulted(f)) =>
                   /\ batch.results[f] # NoneSlot
                   /\ batch.results[f].final_status = FAILED
                   /\ \A k \in DOMAIN batch.script_paths \ {f} :
                         ~Faulted(k) =>
                            /\ batch.results[k] # NoneSlot
                            /\ Outcome(batch.results[k]) =
                                  Outcome(SequentialResults(
                                      Without(batch.script_paths, f))
                                          [IF k < f THEN k ELSE k - 1])
          /\ (batch.script_paths \in FiveScripts
                    /\ \A k \in DOMAIN batch.script_paths : ~Faulted(k)) =>
                \A k \in DOMAIN batch.script_paths :
                    batch.results[k].final_status =
                        IF batch.script_paths[k] = "macbeth.txt"
                        THEN FAILED ELSE SUCCESS

\* five scripts on two workers: the fourth is unparsable and completes
\* third, the worker of the first faulted, the other three succeeded
C11_Witness ==
    /\ batch.pc = "returned"
    /\ batch.script_paths \in FiveScripts
    /\ batch.script_paths[4] = "macbeth.txt"
    /\ batch.max_workers = 2
    /\ batch.order[3] = 4
    /\ Faulted(1)
    /\ batch.results[1] = PipelineResult("sonnet.txt", FAILED)
    /\ \A k \in {2, 3, 5} : batch.results[k].final_status = SUCCESS

\* a result says why it failed: one of its stage results is Failed and has
\* an error message
HasErrorMessage(res) ==
    \E i \in DOMAIN res.phase_results :
        /\ res.phase_results[i].status = FAILED
        /\ res.phase_results[i].error_message # NoMsg

\* C12 (as claimed): every Failed result of a returned batch, the placeholder
\* of a faulted worker included, carries an error message.
C12_FailedCarriesMessage ==
    batch.pc = "returned" =>
        \A k \in DOMAIN batch.results :
            batch.results[k].final_status = FAILED =>
                HasErrorMessage(batch.results[k])

\* the stage results of `phase` with status `status`
StatusCount(phase, status) ==
    Cardinality({i \in DOMAIN Results :
        Results[i].phase_name = phase /\ Results[i].status = status})

\* Simulate and Evaluate are enabled and Simulate is not installed; the
\* parsed script has N >= 1 scenes and Retrieve and Decide succeeded N times
ScenarioA ==
    /\ runner.pc = "returned"
    /\ runner.config.enable_phase_5 /\ runner.config.enable_phase_7
    /\ Len(runner.scenes) >= 1
    /\ StatusCount("phase_1", SUCCESS) = 1
    /\ StatusCount("phase_3", SUCCESS) = Len(runner.scenes)
    /\ StatusCount("phase_4", SUCCESS) = Len(runner.scenes)
    /\ \E i \in DOMAIN Calls :
          Calls[i].stage = "phase_5" /\ Calls[i].out = "ImportError"

\* C13 (as claimed): such a run ends with final status Success, exactly N
\* Decide results, all Success, and one Simulate and one Evaluate result,
\* both Skipped.
C13_ScenarioASucceeds ==
    ScenarioA =>
        /\ runner.result.final_status = SUCCESS
        /\ PhaseCount("phase_4") = Len(runner.scenes)
        /\ StatusCount("phase_4", SUCCESS) = Len(runner.scenes)
        /\ PhaseCount("phase_5") = 1 /\ StatusCount("phase_5", SKIPPED) = 1
        /\ PhaseCount("phase_7") = 1 /\ StatusCount("phase_7", SKIPPED) = 1

\* C14: every worker steps a runner of its own (own tracker, own result),
\* so whatever the interleaving of the workers' steps and the completion
\* order, a concurrent batch returns at every index the final status and the
\* stage names and statuses that the sequential batch of the same scripts
\* returns there.
C14_ConcurrentEqualsSequential ==
    (batch.pc = "returned" /\ batch.parallel) =>
        /\ Len(batch.results) = Len(SequentialResults(batch.script_paths))
        /\ \A k \in DOMAIN batch.script_paths :
              /\ batch.results[k] # NoneSlot
              /\ Outcome(batch.results[k]) =
                    Outcome(SequentialResults(batch.script_paths)[k])

C14_Witness ==
    /\ batch.pc = "returned"
    /\ batch.parallel
    /\ batch.max_workers = 2
    /\ batch.script_paths = <<"othello.txt", "hamlet.txt", "macbeth.txt">>
    /\ batch.order = <<3, 1, 2>>
    /\ Outcome(batch.results[1]) # Outcome(batch.results[2])
    /\ Outcome(batch.results[2]) # Outcome(batch.results[3])

\* the step is an iteration of the as_completed loop
Completion == batch.pc = "as_completed" /\ batch'.order # batch.order

\* C15: in a concurrent batch the result list changes only in an iteration
\* of the as_completed loop; an iteration assigns one index, which was
\* unassigned until then, and leaves every other index as it was; when
\* run_batch returns every index has been assigned, once.
C15_EachIndexAssignedOnce ==
    /\ [][(batch.pc = "as_completed" /\ batch'.results # batch.results)
            => Completion]_vars
    /\ [][Completion =>
            \E idx \in DOMAIN batch.results :
                /\ batch'.order = Append(batch.order, idx)
                /\ batch.results[idx] = NoneSlot
                /\ batch'.results[idx] # NoneSlot
                /\ \A j \in DOMAIN batch.results \ {idx} :
                      batch'.results[j] = batch.results[j]]_vars
    /\ []((batch.pc = "returned" /\ batch.parallel) =>
            /\ Len(batch.order) = Len(batch.script_paths)
            /\ \A k \in DOMAIN batch.script_paths :
                  /\ batch.results[k] # NoneSlot
                  /\ Cardinality({n \in DOMAIN batch.order :
                                     batch.order[n] = k}) = 1)

\* three runs collected in the order 2, 1, 3; the assignment of index 2 is
\* the placeholder of a faulted worker
C15_Witness ==
    /\ batch.pc = "returned"
    /\ batch.parallel
    /\ Len(batch.script_paths) = 3
    /\ batch.order = <<2, 1, 3>>
    /\ Faulted(2)
    /\ batch.results[2] = PipelineResult(batch.script_paths[2], FAILED)

\* the results of the caller's list with final status st
WithStatus(st) ==
    {k \in DOMAIN caller.results : caller.results[k].final_status = st}

\* the quotient q was computed without fault and is a / b
IsQuotient(q, a, b) == q.den # 0 /\ q.num * b = a * q.den

\* C16: the summary of any list of results counts the results, those with
\* final status Success and those with final status Failed, adds up their
\* durations, and gives successful/total and total_duration/total as
\* success rate and average duration; both are 0 for the empty list, and no
\* division by zero happens.
C16_SummaryCounts ==
    caller.summary # NoSummary =>
        LET total == Len(caller.results)
            duration == sum(caller.results, Len(caller.results))
        IN /\ caller.summary.total_scripts = total
           /\ caller.summary.successful = Cardinality(WithStatus(SUCCESS))
           /\ caller.summary.failed = Cardinality(WithStatus(FAILED))
           /\ caller.summary.total_duration_seconds = duration
           /\ caller.summary.success_rate.den # 0
           /\ caller.summary.average_duration_seconds.den # 0
           /\ IF total = 0
              THEN /\ caller.summary.success_rate.num = 0
                   /\ caller.summary.average_duration_seconds.num = 0
              ELSE /\ IsQuotient(caller.summary.success_rate,
                                 Cardinality(WithStatus(SUCCESS)), total)
                   /\ IsQuotient(caller.summary.average_duration_seconds,
                                 duration, total)

\* the empty list has been summarized
C16_Witness == caller.summary # NoSummary /\ caller.results = <<>>

\* a run() call was started by the batch executor
RunStarted ==
    \/ batch.single.pc # "idle"
    \/ batch.futures # <<>>
    \/ batch.i # 0

\* the entries of the directory the caller named that match its pattern
Matching ==
    IF caller.directory = "." THEN
        {name \in caller.entries : matches(name, caller.pattern)}
    ELSE {}

\* C17: a run_directory call on a directory that does not exist, or in which
\* no entry matches the pattern, has returned the empty list: no exception
\* left it and no run() call was ever started.
C17_EmptyDirectory ==
    (batch.pc # "idle" /\ Matching = {}) =>
        /\ batch.pc = "returned"
        /\ batch.results = <<>>
        /\ ~RunStarted

\* the directory exists and holds entries, none of which matches
C17_Witness ==
    /\ batch.pc = "returned"
    /\ caller.directory = "."
    /\ caller.pattern = "*.json"
    /\ caller.entries = {"hamlet.txt", "notes.md"}
    /\ batch.results = <<>>

\* the step is a step of a run() call, not one of the caller
RunStep == runner.pc \notin {"idle", "returned", "raised"}

\* C18 (as claimed): no step of a run() call changes the status, the current
\* stage or the stage results of the ExecutionState object the caller
\* obtained from get_state() after an earlier run ended.
C18_EarlierStateUntouched ==
    [][(RunStep /\ caller.held # 0 /\ caller.held_after >= 1) =>
        /\ runner'.heap[caller.held].status = runner.heap[caller.held].status
        /\ runner'.heap[caller.held].current_phase =
              runner.heap[caller.held].current_phase
        /\ runner'.heap[caller.held].phase_results =
              runner.heap[caller.held].phase_results]_vars

\* C19 (as claimed): when the caller writes to what get_state() returned,
\* the next get_state() and get_summary() give what they gave before the
\* write.
C19_StateIsReadOnly ==
    [][(~caller.mutated /\ caller'.mutated) =>
        /\ get_state(runner') = get_state(runner)
        /\ get_summary(runner') = get_summary(runner)]_vars

\* every stage result recorded in the RunResult or in an ExecutionState
StageResults ==
    {Results[i] : i \in DOMAIN Results}
        \cup UNION {{runner.heap[h].phase_results[i] :
                        i \in DOMAIN runner.heap[h].phase_results} :
                    h \in DOMAIN runner.heap}

\* C20 (as claimed): a recorded stage result has an error message exactly
\* when its status is Failed, and an output only when its status is Success.
C20_ErrorIffFailed ==
    \A p \in StageResults :
        /\ p.error_message # NoMsg <=> p.status = FAILED
        /\ p.output # NoOut => p.status = SUCCESS

\* C20 (amended): a recorded stage result has an error message exactly when
\* its status is Failed or Skipped (a Skipped result carries the reason of
\* the skip there), and an output only when its status is Success.
C20_ErrorIffFailedOrSkipped ==
    \A p \in StageResults :
        /\ p.error_message # NoMsg <=> p.status \in {FAILED, SKIPPED}
        /\ p.output # NoOut => p.status = SUCCESS

\* a returned run that recorded a Success result with an output, a Failed
\* result, a result Skipped by configuration and one Skipped because the
\* module is missing
C20_Witness ==
    /\ runner.pc = "returned"
    /\ \E p \in StageResults : p.status = SUCCESS /\ p.output # NoOut
    /\ \E p \in StageResults : p.status = FAILED /\ p.phase_name = "phase_2"
    /\ \E p \in StageResults :
          p.status = SKIPPED /\ p.error_message = Msg("Module not available", 0)
    /\ \E p \in StageResults :
          p.status = SKIPPED
              /\ p.error_message = Msg("Disabled by configuration", 0)

\* the locked stage order of a run over n scenes
RECURSIVE PerScene(_)
PerScene(n) ==
    IF n = 0 THEN <<>>
    ELSE PerScene(n - 1) \o <<"phase_2", "phase_3", "phase_4">>

LockedOrder(n) ==
    <<"phase_1">> \o PerScene(n) \o <<"phase_5", "phase_7", "phase_8">>

IsPrefix(s, t) == Len(s) <= Len(t) /\ \A i \in DOMAIN s : s[i] = t[i]

StageNames == [i \in DOMAIN Results |-> Results[i].phase_name]

StartCount(stage) ==
    Cardinality({i \in DOMAIN runner.started : runner.started[i] = stage})

\* C23: within a run no collaborator is called twice for the same unit of
\* work: Parse and Simulate at most once per run, Evaluate started at most
\* once per run, Enrich, Retrieve and Decide at most once per scene; so a
\* stage that failed is never called again.
C23_NoRetries ==
    /\ \A i, j \in DOMAIN Calls :
          (Calls[i].stage = Calls[j].stage /\ Calls[i].idx = Calls[j].idx)
              => i = j
    /\ CallCount("phase_1") <= 1
    /\ CallCount("phase_5") <= 1
    /\ StartCount("phase_7") <= 1
    /\ \A st \in {"phase_2", "phase_3", "phase_4"} :
          /\ CallCount(st) <= Len(runner.scenes)
          /\ StartCount(st) = CallCount(st)

\* a finished run over two scenes in which Enrich failed for the first scene
\* and Simulate failed, and each was called once
C23_Witness ==
    /\ runner.pc = "returned"
    /\ Len(runner.scenes) = 2
    /\ CallCount("phase_2") = 2
    /\ CallCount("phase_5") = 1
    /\ \E i, j \in DOMAIN Calls :
          /\ Calls[i].stage = "phase_2" /\ Calls[i].idx = 0 /\ Raised(Calls[i])
          /\ Calls[j].stage = "phase_5" /\ Calls[j].out \notin {"imported", "ImportError"}

\* an exception raised between the stages of the try block of run()
OutsideFault ==
    runner.exc = "AttributeError" \/ runner.caught = "AttributeError"

\* C24: when reading a scene's identifier raises (the scene is not a dict),
\* no stage is started, called or recorded after the scenes before it, the
\* exception does not leave run(), and once run() is past its handler the
\* final status is Failed and the tracker's run is completed as Failed.
C24_FaultOutsideStageAborts ==
    OutsideFault =>
        /\ runner.pc \in {"except", "finish", "returned"}
        /\ Len(Calls) = 1 + 3 * runner.idx
        /\ Len(runner.started) = Len(Calls)
        /\ StageNames = SubSeq(LockedOrder(runner.idx), 1, 1 + 3 * runner.idx)
        /\ runner.pc \in {"finish", "returned"} =>
              /\ runner.result.final_status = FAILED
              /\ get_state(runner).status = FAILED
              /\ get_state(runner).completed_at # NoTime
              /\ get_state(runner).current_script = runner.result.script_path

\* a returned run whose second scene was not a dict, after a first scene that
\* went through Enrich, Retrieve and Decide without failure
C24_Witness ==
    /\ runner.pc = "returned"
    /\ runner.caught = "AttributeError"
    /\ runner.idx = 1
    /\ \A i \in DOMAIN Results : Results[i].status = SUCCESS

\* the float q is 1.0 / is 0.0
IsOne(q) == q.den # 0 /\ q.num = q.den
IsZero(q) == q.den # 0 /\ q.num = 0

\* C25: for all finite sets A and B, compute_jaccard_similarity(A, B)
\* returns |A n B| / |A u B|, and 1.0 when both are empty; so it returns 1.0
\* for A = B, 0.0 for disjoint sets that are not both empty, the same value
\* with its arguments swapped, and a value within [0, 1].
C25_JaccardValue ==
    session.jaccard # NoAnswer =>
        LET a == session.set_a
            b == session.set_b
            q == session.jaccard.value
        IN /\ ~session.jaccard.raised
           /\ (a = {} /\ b = {}) => IsOne(q)
           /\ (a # {} \/ b # {}) =>
                 IsQuotient(q, Cardinality(a \cap b), Cardinality(a \cup b))
           /\ a = b => IsOne(q)
           /\ (a \cap b = {} /\ a \cup b # {}) => IsZero(q)
           /\ q = compute_jaccard_similarity(b, a)
           /\ q.den > 0 /\ 0 <= q.num /\ q.num <= q.den

\* C26: for every instruction x, with any number of groups and with repeated
\* group ids, compute_determinism_score(x, x) returns score 1.0 and a
\* breakdown whose group_match is 1.0, and MetricsEngine.evaluate_pair(x, x)
\* reports determinism_score 1.0.
C26_DeterminismReflexive ==
    /\ session.score # NoAnswer =>
          /\ ~session.score.raised
          /\ IsOne(session.score.value.score)
          /\ IsOne(session.score.value.breakdown.group_match)
    /\ session.pair # NoAnswer =>
          /\ ~session.pair.raised
          /\ IsOne(session.pair.value.determinism_score)

\* the positions in asked of the log_decision calls that logged an entry
\* and were made after the last clear among the first k calls
LastClear(k) ==
    LET clears == {i \in 1..k : session.asked[i].op = "clear"}
    IN IF clears = {} THEN 0
       ELSE CHOOSE i \in clears : \A j \in clears : j <= i

Logged(k) ==
    {i \in (LastClear(k) + 1)..k :
        /\ session.asked[i].op = "log_decision"
        /\ session.asked[i].scene.kind = "dict"}

\* entries are the entries for the calls at the positions in `logged`, in
\* call order, each with the logger's run_id and seed and its scene's id
Holds(entries, logged) ==
    /\ Len(entries) = Cardinality(logged)
    /\ \A n \in DOMAIN entries :
          LET i == CHOOSE i \in logged :
                      Cardinality({j \in logged : j <= i}) = n
          IN /\ entries[n] = session.answers[i + 1].value
             /\ entries[n].run_id = session.logger.run_id
             /\ entries[n].seed = session.seed
             /\ session.asked[i].scene.scene_id # None =>
                   entries[n].scene_id = session.asked[i].scene.scene_id

LastSave ==
    LET saves == {i \in DOMAIN session.asked : session.asked[i].op = "save"}
    IN IF saves = {} THEN 0
       ELSE CHOOSE i \in saves : \A j \in saves : j <= i

\* C27: after any sequence of log_decision, clear and save calls on one
\* TraceLogger, its entries are exactly the entries logged since the last
\* clear, in call order, each with the logger's run_id and seed and the
\* scene_id of its scene; and the file holds what was so at the last save.
C27_EntriesSinceClear ==
    session.pc = "logging" =>
        /\ session.logger # NoLogger
        /\ Holds(session.logger.entries, Logged(Len(session.asked)))
        /\ LastSave > 0 =>
              /\ session.file # NoFile
              /\ session.file.run_id = session.logger.run_id
              /\ Holds(session.file.entries, Logged(LastSave - 1))

\* the overall status of the tracker's current run
TrackerStatus == get_state(runner).status

\* C28: within one run the tracker's overall status only moves from Pending
\* to Running and from Running to Success or Failed: once it is Failed or
\* Success no tracker operation of that run sets it back to Running or
\* turns Failed into Success.  (A step of the run makes several tracker
\* calls; a step from Pending may therefore end in Success or Failed.)
C28_StatusOnlyForward ==
    [][Len(runner'.heap) = Len(runner.heap) =>
          \/ TrackerStatus' = TrackerStatus
          \/ TrackerStatus = PENDING /\ TrackerStatus' \in {RUNNING, SUCCESS, FAILED}
          \/ TrackerStatus = RUNNING /\ TrackerStatus' \in {SUCCESS, FAILED}]_vars

Ops == runner.ops

\* the call at position k of the history follows a start_phase call for the
\* same stage
Started(k) ==
    /\ k > 1
    /\ Ops[k - 1].op = "start_phase"
    /\ Ops[k - 1].phase_name = Ops[k].phase_name

\* every start_phase call is followed by the complete_phase or skip_phase
\* call of its stage: no stage is started twice before its result
StartedOnce ==
    \A k \in DOMAIN Ops :
        Ops[k].op = "start_phase" =>
            /\ k < Len(Ops)
            /\ Ops[k + 1].op # "start_phase"
            /\ Ops[k + 1].phase_name = Ops[k].phase_name

FailedAt ==
    {i \in DOMAIN get_state(runner).phase_results :
        get_state(runner).phase_results[i].status = FAILED}

\* C30: at every moment after start_pipeline the tracker's last_error is the
\* error message of the Failed stage result appended last in the current
\* run, and is None when the current run has no Failed stage result; so
\* complete_phase with another status, skip_phase, set_current_scene and
\* complete_pipeline leave it as it is.
C30_LastErrorIsLastFailure ==
    Len(runner.heap) > 1 =>
        IF FailedAt = {}
        THEN get_state(runner).last_error = NoMsg
        ELSE LET last == CHOOSE i \in FailedAt : \A j \in FailedAt : j <= i
             IN get_state(runner).last_error =
                    get_state(runner).phase_results[last].error_message

\* a completed run whose first Enrich failed and whose later stages were
\* completed with Success or skipped: last_error is still the Enrich message
C30_Witness ==
    /\ runner.pc = "returned"
    /\ Len(runner.heap) > 1
    /\ Len(runner.scenes) = 2
    /\ FailedAt = {1}
    /\ get_state(runner).phase_results[1].phase_name = "phase_2"
    /\ Len(get_state(runner).phase_results) = 8
    /\ get_state(runner).phase_results[8].status = SKIPPED
    /\ get_state(runner).completed_at # NoTime
    /\ get_state(runner).last_error = Msg("emotion model failed", 0)

\* ------------------------------------------------------------------ C31

\* C31: when run() returns, the result's total_duration_seconds is the sum
\* of duration_seconds over the stage results recorded in that result.
C31_TotalIsSumOfStages ==
    runner.pc = "returned" =>
        runner.result.total_duration_seconds =
            DurationSum(runner.result.phase_results,
                        Len(runner.result.phase_results))

\* ------------------------------------------------------------------ C32

\* C32: after a run in which all N >= 1 scenes went through Enrich, Retrieve
\* and Decide, get_summary() reports scenes_processed = N = total_scenes.
C32_ScenesProcessedIsCount ==
    (/\ runner.pc = "returned"
     /\ Len(runner.scenes) >= 1
     /\ Len(runner.lighting_instructions) = Len(runner.scenes)
     /\ PhaseCount("phase_4") = Len(runner.scenes))
        => /\ get_summary(runner).scenes_processed = Len(runner.scenes)
           /\ get_summary(runner).scenes_processed =
                  get_summary(runner).total_scenes

\* ------------------------------------------------------------------ C33

\* C33: every run that gets past Evaluate records one stage result for the
\* hardware stage (phase_8), whether the hardware flag is enabled or not,
\* and every stage result of the hardware stage is Skipped.
C33_HardwareAlwaysSkipped ==
    /\ \A i \in DOMAIN Results :
           Results[i].phase_name = "phase_8" => Results[i].status = SKIPPED
    /\ (runner.pc = "returned" /\ PhaseCount("phase_7") = 1)
           => PhaseCount("phase_8") = 1

\* ------------------------------------------------------------------ C34

\* run() has gone past its Simulate step without a fault
PastSimulate ==
    \/ runner.pc \in {"phase_7", "phase_8", "complete"}
    \/ runner.pc \in {"finish", "returned"} /\ runner.caught = None

SimulateAt == {i \in DOMAIN Results : Results[i].phase_name = "phase_5"}

\* the Simulate result is in place, nothing is propagating, and Evaluate is
\* the next step or its result is the next stage result
SimulateThenEvaluate(status) ==
    /\ \A k \in SimulateAt :
           /\ Results[k].status = status
           /\ \/ runner.pc = "phase_7" /\ k = Len(Results)
              \/ k < Len(Results) /\ Results[k + 1].phase_name = "phase_7"
    /\ SimulateAt # {}
    /\ runner.exc = None
    /\ runner.caught = None
    /\ runner.pc \notin {"except", "raised"}

\* a disabled Simulate: never invoked, one Skipped stage result
SimulateDisabled ==
    ~runner.config.enable_phase_5 =>
        /\ CallCount("phase_5") = 0
        /\ PastSimulate => /\ Cardinality(SimulateAt) = 1
                           /\ \A k \in SimulateAt : Results[k].status = SKIPPED

\* C34 as stated: Simulate disabled yields exactly one Skipped stage result
\* without invoking the collaborator; Simulate enabled and raising (the
\* import raises ImportError or any other Exception) yields a Failed
\* Simulate result and the run continues with Evaluate.
C34_SimulateRaisesFailed ==
    /\ SimulateDisabled
    /\ \A i \in DOMAIN Calls :
           (Calls[i].stage = "phase_5" /\ Calls[i].out # "imported")
               => SimulateThenEvaluate(FAILED)

\* C34 (amended): Simulate disabled yields exactly one Skipped stage result
\* without invoking the collaborator; Simulate enabled and raising an
\* Exception other than ImportError yields a Failed Simulate result, raising
\* ImportError (collaborator not available) yields a Skipped one, and in both
\* cases the run continues: Evaluate is processed and recorded after it.
C34_SimulateGatedNonFatal ==
    /\ SimulateDisabled
    /\ \A i \in DOMAIN Calls :
           (Calls[i].stage = "phase_5" /\ Calls[i].out # "imported")
               => SimulateThenEvaluate(IF Calls[i].out = "ImportError"
                                       THEN SKIPPED ELSE FAILED)

\* a returned run whose Simulate raised and was recorded Failed, followed by
\* the Evaluate result
C34_Witness ==
    /\ runner.pc = "returned"
    /\ runner.config.enable_phase_5
    /\ \E i \in DOMAIN Calls :
           Calls[i].stage = "phase_5" /\ Calls[i].out = "Exception"
    /\ \E k \in SimulateAt :
           /\ Results[k].status = FAILED
           /\ k < Len(Results)
           /\ Results[k + 1].phase_name = "phase_7"
    /\ runner.result.final_status = FAILED

\* ------------------------------------------------------------------ C35

\* the groups of an instruction that break the contract
Offending(instruction) ==
    {g \in DOMAIN instruction.groups :
        \/ instruction.groups[g].group_id = ""
        \/ instruction.groups[g].parameters.intensity < 0
        \/ instruction.groups[g].parameters.intensity > 10}

\* the check stops at the first offending group; it rejects that group for
\* its intensity when the group has a group_id
RejectedForIntensity(instruction) ==
    /\ Offending(instruction) # {}
    /\ LET g == CHOOSE g \in Offending(instruction) :
                    \A h \in Offending(instruction) : g <= h
       IN instruction.groups[g].group_id # ""

RejectedIntensity(instruction) ==
    LET g == CHOOSE g \in Offending(instruction) :
                 \A h \in Offending(instruction) : g <= h
    IN instruction.groups[g].parameters.intensity

LastCall == Calls[Len(Calls)]

\* C35: when the contract check rejects the instruction Decide returned
\* because of a group's intensity, the error message of the Failed Decide
\* result in the returned result, and the tracker's last_error, are the
\* out-of-range message carrying that intensity value.
C35_MessageNamesIntensity ==
    (/\ Calls # <<>>
     /\ LastCall.stage = "phase_4"
     /\ ~LastCall.out.raised
     /\ RejectedForIntensity(LastCall.out.value))
        => /\ Results # <<>>
           /\ Results[Len(Results)].phase_name = "phase_4"
           /\ Results[Len(Results)].status = FAILED
           /\ Results[Len(Results)].error_message =
                  Msg("Intensity {intensity} out of range [0, 1]",
                      RejectedIntensity(LastCall.out.value))
           /\ get_state(runner).last_error = Results[Len(Results)].error_message

\* a returned run whose Decide returned a group_id-bearing group of intensity
\* 1.3 after a valid one
C35_Witness ==
    /\ runner.pc = "returned"
    /\ Calls # <<>>
    /\ LastCall.stage = "phase_4"
    /\ ~LastCall.out.raised
    /\ Len(LastCall.out.value.groups) = 2
    /\ Offending(LastCall.out.value) = {2}
    /\ RejectedIntensity(LastCall.out.value) = 13
    /\ Results[Len(Results)].error_message.value = 13
    /\ get_state(runner).last_error.value = 13
    /\ runner.result.final_status = FAILED

\* ------------------------------------------------------------------ C36

\* C36: when run() returns, the status of the tracker's ExecutionState
\* equals the final_status of the returned result; in particular the
\* tracker does not report Success for a run whose result is Failed.
C36_TrackerStatusIsFinalStatus ==
    runner.pc = "returned" =>
        get_state(runner).status = runner.result.final_status

\* ------------------------------------------------------------------ C37

\* stage names and statuses of a sequence of stage results, in order
NamesAndStatuses(phase_results) ==
    [i \in DOMAIN phase_results |->
        <<phase_results[i].phase_name, phase_results[i].status>>]

\* C37: at every point of a run, and when run() returns, the stage results
\* of the tracker's current ExecutionState are the same sequence (names and
\* statuses, in order) as the stage results of the run's result, the Parse
\* result included.
C37_TrackerResultsAreRunResults ==
    runner.pc # "idle" =>
        NamesAndStatuses(get_state(runner).phase_results) =
            NamesAndStatuses(runner.result.phase_results)

\* C38: from the start of run(x) on, during Parse, during the later stages
\* and after the run has ended, the tracker's ExecutionState names x as its
\* current_script and has started_at set.
C38_StateNamesCurrentInput ==
    runner.pc # "idle" =>
        /\ get_state(runner).current_script = runner.result.script_path
        /\ get_state(runner).started_at # NoTime

\* ------------------------------------------------------------------ C39

\* C39: every element of a list run_batch returns, in either mode and with
\* the placeholders of faulted workers, has final status Success or Failed,
\* so the summary of the list has successful + failed = total_scripts.
C39_BatchResultsTerminal ==
    batch.pc = "returned" =>
        /\ \A k \in DOMAIN batch.results :
              /\ batch.results[k] # NoneSlot
              /\ batch.results[k].final_status \in {SUCCESS, FAILED}
        /\ summarize_results(batch.results).successful
              + summarize_results(batch.results).failed
                  = summarize_results(batch.results).total_scripts

\* a concurrent batch returned a list that holds the placeholder of a
\* faulted worker next to a Success and a Failed result of completed runs
C39_Witness ==
    /\ batch.pc = "returned"
    /\ batch.parallel
    /\ \E k \in DOMAIN batch.results :
           /\ batch.futures[k].runner.pc = "raised"
           /\ batch.results[k].final_status = FAILED
           /\ batch.results[k].phase_results = <<>>
    /\ \E k \in DOMAIN batch.results :
           batch.results[k].final_status = SUCCESS
    /\ \E k \in DOMAIN batch.results :
           /\ batch.results[k].final_status = FAILED
           /\ batch.results[k].phase_results # <<>>

\* ------------------------------------------------------------------ C40

\* C40: when run() returns, the result's final status is Failed if and only
\* if one of its stage results is Failed or run() caught a fault in one of
\* its handlers, and is Success otherwise; Skipped stage results do not
\* count.
C40_FinalStatusIffFailure ==
    runner.pc = "returned" =>
        runner.result.final_status =
            IF \/ \E i \in DOMAIN Results : Results[i].status = FAILED
               \/ runner.caught # None
            THEN FAILED ELSE SUCCESS

\* a returned run with Skipped stage results and no Failed one is a Success
C40_Witness ==
    /\ runner.pc = "returned"
    /\ runner.caught = None
    /\ Len(runner.scenes) >= 1
    /\ \E i \in DOMAIN Results : Results[i].status = SKIPPED
    /\ \A i \in DOMAIN Results : Results[i].status # FAILED
    /\ runner.result.final_status = SUCCESS

====
